---- MODULE Spec2Model ----
(***************************************************************************)
(* Execution core of openclaw-mini: Agent.run (lanes, abort, finally       *)
(* flush), runAgentLoop (turns, provider call with retry, tool batch,      *)
(* steering), the session tool-result guard and the SessionManager log.    *)
(*                                                                         *)
(* One step of the model is the code a coroutine runs between two          *)
(* suspension points (await of the provider, of a tool, of session log     *)
(* I/O, of lane admission, of getSteeringMessages).  JavaScript runs such  *)
(* a segment without interleaving, so it is one atomic action here.        *)
(***************************************************************************)
EXTENDS Integers, Sequences, FiniteSets, TLC

\* ------------------------------------------------------------ bounds
MaxRuns == 2          \* run() calls (user calls and subagent spawns) per behaviour
NumSessions == 2      \* session keys
MaxTurns == 2         \* config.maxTurns of the modelled agent
MaxTools == 2         \* tool_use blocks in one assistant message
MaxIds == 2           \* tool_use ids the provider hands out per behaviour
MaxSteers == 1        \* steer() calls per behaviour
MaxFaults == 1        \* injected failures (provider errors, failed writes) per behaviour
MaxAborts == 1        \* abort(runId) calls per behaviour
MaxCrashes == 1       \* process restarts per behaviour
MaxResets == 1        \* reset(sessionKey) calls per behaviour
MaxDisturbances == 2  \* steer, abort, failure, restart, reset events per behaviour, together
MaxCap == 1           \* largest explicit config.maxConcurrentRuns tried

\* ------------------------------------------------------------ program constants
RetryAttempts == 3              \* retryAsync attempts
DefaultMaxConcurrentRuns == 4   \* config.maxConcurrentRuns ?? 4
SessionLaneConcurrency == 1     \* session lane cap

Runs == 1..MaxRuns
Sessions == 1..NumSessions

VARIABLES
  run,                 \* run id -> the run's record (Agent.run + runAgentLoop locals)
  nruns,               \* run() calls made so far
  states,              \* SessionManager.states: session -> in-memory SessionState
  files,               \* session -> the session file on disk
  pendingBySession,    \* guard: session -> ordered pending tool_use ids
  steeringQueues,      \* Agent.steeringQueues: session -> queued steering texts
  sessionLane,         \* session -> [queue, active] of the session lane
  globalLane,          \* [queue, active] of the global lane
  maxConcurrentRuns,   \* config.maxConcurrentRuns: <<>> when not given, else <<n>>
  shouldBlock,         \* evaluateContextWindowGuard(...).shouldBlock for this agent
  isSubagent,          \* session -> its key is a subagent key
  nextId,              \* tool_use ids handed out so far
  steers,              \* steer() calls so far
  faults,              \* failures injected so far
  aborts,              \* abort(runId) calls so far
  crashes,             \* process restarts so far
  resets,              \* reset(sessionKey) calls so far
  \* one SessionManager session with its entries in full (SpecSession)
  sessionState,        \* its SessionState: entries with id and parentId, leafId, flags
  sessionFile,         \* its file: the header line and the entry lines
  persisting,          \* entries whose persistEntry call waits for the write lock
  lastId,              \* entry ids handed out so far
  restarts,            \* process restarts so far
  runKept,             \* the last run-start compaction: its entry id, the messages kept
  \* the write lock of one session file (SpecLock)
  lockFile,            \* the lock file at lockPath
  acquirers,           \* acquireSessionWriteLock call -> its position
  staleRemoved,        \* the callers that removed the lock file a dead process left
  \* one pruneContextMessages call (SpecPrune)
  pruneParams,         \* its params
  pruneResult,         \* <<>> before the call, then <<its PruneResult>>
  \* the subscribers of one Agent (SpecEmit)
  listeners,           \* Agent.listeners: the subscribed listeners in insertion order
  received,            \* listener -> the events it was called with since it subscribed
  emitted,             \* the events passed to emit so far
  thrown,              \* for each of them, the listeners that threw when handling it
  since,               \* listener -> the number of events emitted before it subscribed
  emitThrew,           \* some emit call threw to its caller
  \* one SessionManager object and the guards installed on it (SpecInstall)
  sm,                  \* its append property, its two __toolResultGuard fields, its log
  guardPending,        \* guard -> the pending map of its closure
  returned,            \* the guards the installSessionToolResultGuard calls returned
  oneInstall,          \* the same calls on a SessionManager with the first install only
  \* the provider call of one turn of runAgentLoop (SpecTurn)
  llm,                 \* its position, attempt number, abort signal, overflow flag
  assistantContent,    \* const assistantContent: ContentBlock[]
  turnToolCalls,       \* const toolCalls: the tool calls of the turn
  turnTextParts,       \* const turnTextParts: string[]
  streamed,            \* the text and tool_use blocks the provider streamed in this attempt
  turnLog,             \* the assistant messages the loop appended to the session
  \* one HeartbeatManager with its HeartbeatWake and the timers it set (SpecHeartbeat)
  hb,                  \* started, config.enabled, state.timer, state.lastRunMs, wake, timers
  hbRuns,              \* the runOnce calls in flight: the wake handler's and trigger()'s
  hbClock,             \* Date.now()
  hbCalls,             \* calls of the public methods so far
  hbSeen               \* what the interval-driven heartbeats did so far

sessionVars == <<sessionState, sessionFile, persisting, lastId, restarts, runKept>>
lockVars == <<lockFile, acquirers, staleRemoved>>
pruneVars == <<pruneParams, pruneResult>>
emitVars == <<listeners, received, emitted, thrown, since, emitThrew>>
installVars == <<sm, guardPending, returned, oneInstall>>
turnVars == <<llm, assistantContent, turnToolCalls, turnTextParts, streamed, turnLog>>
heartbeatVars == <<hb, hbRuns, hbClock, hbCalls, hbSeen>>

\* the state of the components that are modelled on their own
componentVars == <<sessionVars, lockVars, pruneVars, emitVars, installVars, turnVars, heartbeatVars>>

vars == <<run, nruns, states, files, pendingBySession, steeringQueues, sessionLane,
          globalLane, maxConcurrentRuns, shouldBlock, isSubagent, nextId, steers,
          faults, aborts, crashes, resets, componentVars>>

\* ------------------------------------------------------------ messages
NoText == <<"none", 0>>
SKIPPED == "Skipped due to queued user message."
MISSING ==
  "[openclaw-mini] missing tool result in session history; inserted synthetic error result for transcript repair."

UserText(t) == [role |-> "user", text |-> t, uses |-> <<>>, res |-> <<>>]
AssistantMsg(ids) == [role |-> "assistant", text |-> NoText, uses |-> ids, res |-> <<>>]
ToolResultMsg(rs) == [role |-> "user", text |-> NoText, uses |-> <<>>, res |-> rs]
NoMsg == [role |-> "none", text |-> NoText, uses |-> <<>>, res |-> <<>>]

ToolResult(id, c) == [tool_use_id |-> id, content |-> c]

skipToolCall(id) == ToolResult(id, SKIPPED)

makeMissingToolResult(id) == ToolResult(id, MISSING)

SeqRange(q) == {q[i] : i \in 1..Len(q)}

\* Map.delete of every id of ids, keeping the insertion order of the rest
RECURSIVE MapDelete(_, _)
MapDelete(pend, ids) ==
  IF pend = <<>> THEN <<>>
  ELSE IF Head(pend) \in ids THEN MapDelete(Tail(pend), ids)
       ELSE <<Head(pend)>> \o MapDelete(Tail(pend), ids)

\* Map.set of every id of ids in order: a key already present keeps its place
RECURSIVE MapSet(_, _)
MapSet(pend, ids) ==
  IF ids = <<>> THEN pend
  ELSE MapSet(IF Head(ids) \in SeqRange(pend) THEN pend ELSE Append(pend, Head(ids)),
              Tail(ids))

extractToolUsesFromAssistant(m) == IF m.role # "assistant" THEN <<>> ELSE m.uses

extractToolResultIds(m) ==
  IF m.role # "user" THEN <<>> ELSE [i \in 1..Len(m.res) |-> m.res[i].tool_use_id]

\* the user message flushPendingToolResults builds from the pending map
SyntheticMsg(pend) == ToolResultMsg([i \in 1..Len(pend) |-> makeMissingToolResult(pend[i])])


\* ------------------------------------------------------------ run records
IdleRun ==
  [pc |-> "idle", sessionKey |-> 0, parent |-> 0, born |-> 0,
   controller |-> FALSE, aborted |-> FALSE, callAborted |-> FALSE,
   turns |-> 0, hasMoreToolCalls |-> TRUE, pendingMessages |-> <<>>,
   toolCalls |-> <<>>, i |-> 0, toolResults |-> <<>>, steeringMessages |-> <<>>,
   attempt |-> 0, overflowCompactionAttempted |-> FALSE, loopError |-> FALSE,
   settled |-> "no",
   todo |-> <<>>, inflight |-> NoMsg, track |-> <<>>, ret |-> "none",
   events |-> <<>>,
   \* history of the run, read by the properties only
   flushCalled |-> FALSE, abortPc |-> "none", abortEv |-> 0, streamCalls |-> 0,
   abortStreamCalls |-> 0, steerAt |-> 0, lastKind |-> "none"]

\* A "world" w is what one segment of run code can touch: the run's record rc and,
\* for the session it works on, the SessionState st, the file fl, the guard's
\* pending map pend and the steering queue sq.  Segments are functions on worlds.
Emit(w, e) == [w EXCEPT !.rc.events = Append(@, e)]

EmitAll(w, es) == [w EXCEPT !.rc.events = @ \o es]

\* ------------------------------------------------------------ SessionManager
NewState == [loaded |-> TRUE, entries |-> <<>>, flushed |-> FALSE, hasAssistant |-> FALSE]

NoState == [loaded |-> FALSE, entries |-> <<>>, flushed |-> FALSE, hasAssistant |-> FALSE]

NoFile == [exists |-> FALSE, lines |-> <<>>]

buildStateFromEntries(lines) ==
  [loaded |-> TRUE, entries |-> lines, flushed |-> TRUE,
   hasAssistant |-> \E k \in 1..Len(lines) : lines[k].role = "assistant"]

ensureState(w) ==
  IF w.st.loaded THEN w
  ELSE IF w.fl.exists THEN [w EXCEPT !.st = buildStateFromEntries(w.fl.lines)]
  ELSE [w EXCEPT !.st = NewState]

\* SessionManager.append up to its await of persistEntry: the in-memory update
MemPush(w, m) ==
  LET w1 == ensureState(w)
  IN [w1 EXCEPT !.st.entries = Append(@, m),
                !.st.hasAssistant = @ \/ m.role = "assistant",
                !.rc.inflight = m]

\* persistEntry when the lock is obtained and the write succeeds
persistEntry(w) ==
  IF ~w.st.hasAssistant THEN w
  ELSE IF ~w.st.flushed
       THEN [w EXCEPT !.fl = [exists |-> TRUE, lines |-> w.st.entries],
                      !.st.flushed = TRUE]
       ELSE [w EXCEPT !.fl = [exists |-> TRUE, lines |-> Append(w.fl.lines, w.rc.inflight)]]

\* ------------------------------------------------------------ tool-result guard
\* The wrapped sessionManager.append, up to the first in-memory update: the guard's
\* synchronous decisions (match and delete, or flush the pending ids first).
AppendCall(w, m, ret) ==
  LET resultIds == extractToolResultIds(m)
      toolCalls == extractToolUsesFromAssistant(m)
      w1 == [w EXCEPT !.rc.pc = "append", !.rc.ret = ret]
  IN IF resultIds # <<>>
     THEN MemPush([w1 EXCEPT !.pend = MapDelete(@, SeqRange(resultIds)),
                             !.rc.todo = <<>>, !.rc.track = <<>>], m)
     ELSE IF w.pend # <<>>
     THEN MemPush([w1 EXCEPT !.pend = <<>>, !.rc.todo = <<m>>, !.rc.track = toolCalls],
                  SyntheticMsg(w.pend))
     ELSE MemPush([w1 EXCEPT !.rc.todo = <<>>, !.rc.track = toolCalls], m)

\* ------------------------------------------------------------ Agent.run: catch / finally
\* FinallyFlush as it would be were the flush on the success path only
FinallyFlushUnlessThrown(w) ==
  IF w.rc.settled = "rejected"
  THEN [w EXCEPT !.rc.pc = "settle", !.rc.controller = FALSE]
  ELSE LET w1 == [w EXCEPT !.rc.flushCalled = TRUE]
       IN IF w1.pend = <<>>
          THEN [w1 EXCEPT !.rc.pc = "settle", !.rc.controller = FALSE]
          ELSE MemPush([w1 EXCEPT !.pend = <<>>, !.rc.pc = "append", !.rc.ret = "finally",
                                  !.rc.todo = <<>>, !.rc.track = <<>>],
                       SyntheticMsg(w1.pend))

\* finally { await flushPendingToolResults(sessionKey); runAbortControllers.delete }
FinallyFlush(w) ==
  LET w1 == [w EXCEPT !.rc.flushCalled = TRUE]
  IN IF w1.pend = <<>>
     THEN [w1 EXCEPT !.rc.pc = "settle", !.rc.controller = FALSE]
     ELSE MemPush([w1 EXCEPT !.pend = <<>>, !.rc.pc = "append", !.rc.ret = "finally",
                             !.rc.todo = <<>>, !.rc.track = <<>>],
                  SyntheticMsg(w1.pend))

\* AgentRunCatch as it would be without the loopError test
AgentRunCatchAlwaysEmits(w) ==
  FinallyFlush(Emit([w EXCEPT !.rc.settled = "rejected"], <<"agent_error", 0>>))

\* catch (err) { if (!loopError) emit(agent_error); throw err } finally {...}
AgentRunCatch(w) ==
  LET w1 == [w EXCEPT !.rc.settled = "rejected"]
  IN FinallyFlush(IF w1.rc.loopError THEN w1 ELSE Emit(w1, <<"agent_error", 0>>))

\* AfterLoop as it would be were the finally block not run
AfterLoopWithoutFinally(w) ==
  [w EXCEPT !.rc.settled = IF w.rc.loopError THEN "rejected" ELSE "resolved",
            !.rc.pc = "settle", !.rc.controller = FALSE]

\* the for-await over the loop's stream has ended: throw on loopError, else return
AfterLoop(w) ==
  IF w.rc.loopError THEN AgentRunCatch(w)
  ELSE FinallyFlush([w EXCEPT !.rc.settled = "resolved"])

\* ------------------------------------------------------------ runAgentLoop
\* catch (err) { stream.push(agent_error); stream.end(...) }; Agent.run's for-await
\* delivers the event, notes loopError and ends
LoopCatch(w) ==
  AfterLoop([Emit(w, <<"agent_error", 0>>) EXCEPT !.rc.loopError = TRUE,
                                                 !.rc.inflight = NoMsg, !.rc.todo = <<>>])

\* stream.push(agent_end); stream.end(...); Agent.run's for-await delivers it and ends
LoopEnd(w) == AfterLoop(Emit(w, <<"agent_end", 0>>))

\* retryAsync's fn: streamFn(modelDef, piContext, streamOpts) is called
StreamCall(w) ==
  [w EXCEPT !.rc.pc = "stream", !.rc.streamCalls = @ + 1, !.rc.toolCalls = <<>>,
            !.rc.lastKind = "none"]

\* for (const msg of pendingMessages) { await appendMessage(sessionKey, msg); ... }
InjectOrStream(w) ==
  IF w.rc.pendingMessages # <<>>
  THEN AppendCall([w EXCEPT !.rc.pendingMessages = Tail(@)],
                  UserText(<<"steer", Head(w.rc.pendingMessages)>>), "inject")
  ELSE StreamCall([w EXCEPT !.rc.attempt = 1])

\* LoopTop as it would be without the test of turns against maxTurns
LoopTopWithoutCap(w) ==
  IF ~(w.rc.hasMoreToolCalls \/ w.rc.pendingMessages # <<>>) THEN LoopEnd(w)
  ELSE IF w.rc.aborted THEN LoopEnd(w)
  ELSE InjectOrStream(
         [Emit(w, <<"turn_start", w.rc.turns + 1>>)
            EXCEPT !.rc.turns = @ + 1, !.rc.toolResults = <<>>,
                   !.rc.steeringMessages = <<>>, !.rc.steerAt = 0, !.rc.i = 0])

\* top of the inner while: the loop condition, the cap and abort checks, turn_start
LoopTop(w) ==
  IF ~(w.rc.hasMoreToolCalls \/ w.rc.pendingMessages # <<>>) THEN LoopEnd(w)
  ELSE IF w.rc.turns >= MaxTurns THEN LoopEnd(w)
  ELSE IF w.rc.aborted THEN LoopEnd(w)
  ELSE InjectOrStream(
         [Emit(w, <<"turn_start", w.rc.turns + 1>>)
            EXCEPT !.rc.turns = @ + 1, !.rc.toolResults = <<>>,
                   !.rc.steeringMessages = <<>>, !.rc.steerAt = 0, !.rc.i = 0])

\* pendingMessages = await getSteeringMessages(): the queue is spliced at the call
\* and the loop goes on in the same macrotask
DrainSteering(w) == LoopTop([w EXCEPT !.rc.pendingMessages = w.sq, !.sq = <<>>])

\* tool_execution_start and the call of the wrapped tool.execute for call k
ToolStart(w, k) ==
  [Emit(w, <<"tool_execution_start", w.rc.toolCalls[k]>>)
     EXCEPT !.rc.i = k, !.rc.callAborted = w.rc.aborted, !.rc.pc = "tool"]

\* after the assistant message is persisted
AfterAssistant(w) ==
  LET w1 == [w EXCEPT !.rc.hasMoreToolCalls = (w.rc.toolCalls # <<>>)]
  IN IF w.rc.toolCalls = <<>>
     THEN DrainSteering(Emit(w1, <<"turn_end", w1.rc.turns>>))
     ELSE ToolStart(w1, 1)

\* ResultMsg as it would be were the skipped calls left without a result
ResultMsgWithoutSkipped(rc) ==
  ToolResultMsg(SelectSeq(rc.toolResults, LAMBDA t : t.content # SKIPPED))

ResultMsg(rc) == ToolResultMsg(rc.toolResults)

\* SteerChecked as it would be did it break without synthesizing the skipped results
SteerCheckedDropsRest(w) ==
  LET rc == w.rc
      n == Len(rc.toolCalls)
  IN IF rc.steeringMessages # <<>>
     THEN LET w2 == [Emit(w, <<"steering", Len(rc.steeringMessages)>>)
                       EXCEPT !.rc.steerAt = rc.i]
          IN AppendCall(w2, ResultMsg(w2.rc), "results")
     ELSE IF rc.i < n THEN ToolStart(w, rc.i + 1)
     ELSE AppendCall(w, ResultMsg(rc), "results")

\* after getSteeringMessages that follows tool i: skip the rest, or go on
SteerChecked(w) ==
  LET rc == w.rc
      n == Len(rc.toolCalls)
  IN IF rc.steeringMessages # <<>>
     THEN LET skipped == [k \in 1..(n - rc.i) |-> rc.toolCalls[rc.i + k]]
              w1 == EmitAll(w, [k \in 1..Len(skipped) |-> <<"tool_skipped", skipped[k]>>])
              w2 == [Emit(w1, <<"steering", Len(rc.steeringMessages)>>)
                       EXCEPT !.rc.toolResults =
                                @ \o [k \in 1..Len(skipped) |-> skipToolCall(skipped[k])],
                              !.rc.steerAt = rc.i]
          IN AppendCall(w2, ResultMsg(w2.rc), "results")
     ELSE IF rc.i < n THEN ToolStart(w, rc.i + 1)
     ELSE AppendCall(w, ResultMsg(rc), "results")

\* after the tool-result message is persisted
AfterResults(w) ==
  LET w1 == Emit(w, <<"turn_end", w.rc.turns>>)
  IN IF w1.rc.steeringMessages # <<>>
     THEN LoopTop([w1 EXCEPT !.rc.pendingMessages = w1.rc.steeringMessages])
     ELSE DrainSteering(w1)

\* ------------------------------------------------------------ append: return / throw
\* the awaited append resolved: the code after it, by call site
AppendReturn(w) ==
  CASE w.rc.ret = "user" -> [w EXCEPT !.rc.pc = "prep"]
    [] w.rc.ret = "inject" -> InjectOrStream(w)
    [] w.rc.ret = "assistant" -> AfterAssistant(w)
    [] w.rc.ret = "results" -> AfterResults(w)
    [] w.rc.ret = "finally" -> [w EXCEPT !.rc.pc = "settle", !.rc.controller = FALSE]
    [] w.rc.ret = "summary" -> [w EXCEPT !.rc.pc = "finished"]

\* the awaited append rejected: the handler in scope at the call site
AppendThrow(w) ==
  LET w1 == [w EXCEPT !.rc.inflight = NoMsg, !.rc.todo = <<>>, !.rc.track = <<>>]
  IN CASE w.rc.ret = "user" -> AgentRunCatch(w1)
       [] w.rc.ret \in {"inject", "assistant", "results"} -> LoopCatch(w1)
       [] w.rc.ret = "finally" -> [w1 EXCEPT !.rc.pc = "settle", !.rc.settled = "rejected"]
       [] w.rc.ret = "summary" -> [w1 EXCEPT !.rc.pc = "finished"]

\* persistEntry done for the entry in flight: next queued append, or return
AppendPersisted(w) ==
  LET w1 == persistEntry(w)
  IN IF w1.rc.todo # <<>>
     THEN MemPush([w1 EXCEPT !.rc.todo = Tail(@)], Head(w1.rc.todo))
     ELSE AppendReturn([w1 EXCEPT !.pend = MapSet(@, w1.rc.track),
                                  !.rc.inflight = NoMsg, !.rc.track = <<>>])


\* ------------------------------------------------------------ state, lanes
World(r, s) ==
  [rc |-> run[r], st |-> states[s], fl |-> files[s],
   pend |-> pendingBySession[s], sq |-> steeringQueues[s]]

Commit(r, s, w) ==
  /\ run' = [run EXCEPT ![r] = w.rc]
  /\ states' = [states EXCEPT ![s] = w.st]
  /\ files' = [files EXCEPT ![s] = w.fl]
  /\ pendingBySession' = [pendingBySession EXCEPT ![s] = w.pend]
  /\ steeringQueues' = [steeringQueues EXCEPT ![s] = w.sq]

laneVars == <<sessionLane, globalLane>>
configVars == <<maxConcurrentRuns, shouldBlock>>
budgetVars == <<nextId, steers, faults, aborts, crashes>>

Disturbances == steers + faults + aborts + crashes + resets

EmptyLane == [queue |-> <<>>, active |-> 0]

\* resolveSessionLane(sessionKey): one lane per session key
resolveSessionLane(s, r) == s

\* the global cap as it would be were it set one above the configured value
GlobalLaneConcurrencyOneMore ==
  IF maxConcurrentRuns = <<>> THEN DefaultMaxConcurrentRuns + 1 ELSE maxConcurrentRuns[1] + 1

\* setLaneConcurrency(globalLane, config.maxConcurrentRuns ?? 4)
GlobalLaneConcurrency ==
  IF maxConcurrentRuns = <<>> THEN DefaultMaxConcurrentRuns ELSE maxConcurrentRuns[1]

\* EnqueueRun as it would be were the body enqueued in the global lane directly
EnqueueRunGlobalOnly(r, lane, sl, gl) ==
  [pc |-> "global_queue", sl |-> sl, gl |-> [gl EXCEPT !.queue = Append(@, r)]]

\* EnqueueRun as it would be did the session lane take the newest call first
EnqueueRunAtFront(r, lane, sl, gl) ==
  [pc |-> "session_queue", sl |-> [sl EXCEPT ![lane].queue = <<r>> \o @], gl |-> gl]

\* enqueueInLane(sessionLane, () => enqueueInLane(globalLane, body)): the call
\* puts the run in its session lane; the session task will enqueue the body
EnqueueRun(r, lane, sl, gl) ==
  [pc |-> "session_queue", sl |-> [sl EXCEPT ![lane].queue = Append(@, r)], gl |-> gl]

\* a record for a new run() call
NewRun(s, parent) == [IdleRun EXCEPT !.sessionKey = s, !.parent = parent, !.born = crashes]

SessionUsed(s) ==
  \/ \E r \in Runs : run[r].pc # "idle" /\ run[r].sessionKey = s
  \/ files[s].exists

\* ------------------------------------------------------------ actions
\* agent.run(sessionKey, userMessage) is called
RunCall(s) ==
  /\ nruns < MaxRuns
  /\ ~isSubagent[s]
  /\ LET r == nruns + 1
         e == EnqueueRun(r, resolveSessionLane(s, r), sessionLane, globalLane)
     IN /\ run' = [run EXCEPT ![r] = [NewRun(s, 0) EXCEPT !.pc = e.pc]]
        /\ sessionLane' = e.sl
        /\ globalLane' = e.gl
  /\ nruns' = nruns + 1
  /\ UNCHANGED <<states, files, pendingBySession, steeringQueues, configVars, resets,
                 componentVars, isSubagent, budgetVars>>

\* the session lane starts the run's task, which enqueues the body in the global lane
SessionAdmit(r) ==
  LET lane == resolveSessionLane(run[r].sessionKey, r)
  IN /\ run[r].pc = "session_queue"
     /\ sessionLane[lane].queue # <<>>
     /\ Head(sessionLane[lane].queue) = r
     /\ sessionLane[lane].active < SessionLaneConcurrency
     /\ sessionLane' = [sessionLane EXCEPT ![lane].queue = Tail(@), ![lane].active = @ + 1]
     /\ globalLane' = [globalLane EXCEPT !.queue = Append(@, r)]
     /\ run' = [run EXCEPT ![r].pc = "global_queue"]
     /\ UNCHANGED <<nruns, states, files, pendingBySession, steeringQueues, configVars,
                    resets, componentVars, isSubagent, budgetVars>>

\* the global lane starts the body: controller, agent_start, context-window guard,
\* sessions.load, and the append of the user message up to its first write
GlobalAdmit(r) ==
  LET s == run[r].sessionKey
      w0 == World(r, s)
      w1 == Emit([w0 EXCEPT !.rc.controller = TRUE], <<"agent_start", 0>>)
  IN /\ run[r].pc = "global_queue"
     /\ globalLane.queue # <<>>
     /\ Head(globalLane.queue) = r
     /\ globalLane.active < GlobalLaneConcurrency
     /\ globalLane' = [globalLane EXCEPT !.queue = Tail(@), !.active = @ + 1]
     /\ Commit(r, s, IF shouldBlock THEN AgentRunCatch(w1)
                     ELSE AppendCall(ensureState(w1), UserText(<<"run", r>>), "user"))
     /\ UNCHANGED <<nruns, sessionLane, configVars, resets, componentVars, isSubagent,
                    budgetVars>>

\* one segment of run r on session s that touches nothing but its world
Segment(r, s, w) ==
  /\ Commit(r, s, w)
  /\ UNCHANGED <<nruns, laneVars, configVars, resets, componentVars, isSubagent, budgetVars>>

\* a segment that ends in an injected failure
FaultSegment(r, s, w) ==
  /\ faults < MaxFaults
  /\ Disturbances < MaxDisturbances
  /\ faults' = faults + 1
  /\ Commit(r, s, w)
  /\ UNCHANGED <<nruns, laneVars, configVars, resets, componentVars, isSubagent, nextId,
                 steers, aborts, crashes>>

\* prepareMessagesForRun and buildSystemPrompt resolved; runAgentLoop starts and
\* its first getSteeringMessages drains the queue
Prepared(r) ==
  /\ run[r].pc = "prep"
  /\ LET s == run[r].sessionKey IN Segment(r, s, DrainSteering(World(r, s)))

\* prepareMessagesForRun (the summarizer call) rejected
PrepareFailed(r) ==
  /\ run[r].pc = "prep"
  /\ LET s == run[r].sessionKey IN FaultSegment(r, s, AgentRunCatch(World(r, s)))

\* the provider stream completed with n tool calls
StreamOk(r, n) ==
  /\ run[r].pc = "stream"
  /\ ~run[r].aborted
  /\ nextId + n <= MaxIds
  /\ LET s == run[r].sessionKey
         ids == [k \in 1..n |-> nextId + k]
         w == [World(r, s) EXCEPT !.rc.toolCalls = ids]
     IN Commit(r, s, AppendCall(w, AssistantMsg(ids), "assistant"))
  /\ nextId' = nextId + n
  /\ UNCHANGED <<nruns, laneVars, configVars, resets, componentVars, isSubagent, steers,
                 faults, aborts, crashes>>

\* shouldRetry: (err) => abortSignal.aborted ? false : isRateLimitError(err)
shouldRetry(rc, kind) == ~rc.aborted /\ kind = "ratelimit"

\* LlmCatch as it would be without the overflowCompactionAttempted test
LlmCatchEveryOverflow(w, kind) ==
  IF kind = "overflow"
  THEN [Emit(w, <<"context_overflow_compact", 0>>)
          EXCEPT !.rc.overflowCompactionAttempted = TRUE, !.rc.pc = "compact"]
  ELSE LoopCatch(w)

\* catch (llmError): one overflow auto-compaction per run, else rethrow
LlmCatch(w, kind) ==
  IF kind = "overflow" /\ ~w.rc.overflowCompactionAttempted
  THEN [Emit(w, <<"context_overflow_compact", 0>>)
          EXCEPT !.rc.overflowCompactionAttempted = TRUE, !.rc.pc = "compact"]
  ELSE LoopCatch(w)

\* retryAsync after a failed attempt: retry with backoff, or give up
AttemptFailed(w, kind) ==
  LET w1 == [w EXCEPT !.rc.lastKind = kind]
  IN IF w.rc.attempt < RetryAttempts /\ shouldRetry(w.rc, kind)
     THEN [Emit(w1, <<"retry", w.rc.attempt>>) EXCEPT !.rc.pc = "backoff"]
     ELSE LlmCatch(w1, kind)

\* the provider stream ended in an error event.  A failure draws on the failure
\* budget unless it repeats the one before it: a rate-limit error of a re-attempt,
\* or an overflow error after the overflow compaction
StreamFailed(r, kind) ==
  /\ run[r].pc = "stream"
  /\ ~run[r].aborted
  /\ LET s == run[r].sessionKey
         w == AttemptFailed(World(r, s), kind)
     IN IF \/ kind = "ratelimit" /\ run[r].attempt > 1
           \/ kind = "overflow" /\ run[r].overflowCompactionAttempted
        THEN Segment(r, s, w)
        ELSE FaultSegment(r, s, w)

\* the signal fired during the stream: the attempt rejects with the abort error
StreamAborted(r) ==
  /\ run[r].pc = "stream"
  /\ run[r].aborted
  /\ LET s == run[r].sessionKey IN Segment(r, s, AttemptFailed(World(r, s), "aborted"))

\* the backoff sleep of retryAsync is over: the next attempt calls streamFn
Backoff(r) ==
  /\ run[r].pc = "backoff"
  /\ LET s == run[r].sessionKey
     IN Segment(r, s, StreamCall([World(r, s) EXCEPT !.rc.attempt = @ + 1]))

\* prepareCompaction resolved, with or without a summary
Compacted(r, summary) ==
  /\ run[r].pc = "compact"
  /\ LET s == run[r].sessionKey
         w == World(r, s)
     IN Segment(r, s, IF summary THEN LoopTop([w EXCEPT !.rc.turns = @ - 1,
                                                        !.rc.lastKind = "none"])
                      ELSE LoopCatch(w))

\* the result string of a tool call.  The catch builds it from a fixed prefix, the
\* four CJK characters U+6267 U+884C U+9519 U+8BEF and ": ", written here as
\* "ExecError: ", and the error's message; the wrapper's message for an aborted
\* signal (U+64CD U+4F5C U+5DF2 U+4E2D U+6B62) is written "aborted"
ResultText(rc, c) ==
  IF c = "ok" THEN "ok"
  ELSE IF rc.callAborted THEN "ExecError: aborted"
  ELSE "ExecError: tool failed"

ExecErrors == {"ExecError: aborted", "ExecError: tool failed"}

\* ToolDone as it would be did a throwing tool leave no result behind
ToolDoneDropsThrown(w, c) ==
  LET id == w.rc.toolCalls[w.rc.i]
      w1 == Emit(w, <<"tool_execution_end", id>>)
  IN [w1 EXCEPT !.rc.toolResults = IF c = "ok" THEN Append(@, ToolResult(id, "ok")) ELSE @,
                !.rc.steeringMessages = w.sq, !.sq = <<>>]

\* tool.execute settled: c is "ok" or, when it threw, "error"; tool_execution_end,
\* the result is collected and getSteeringMessages is called
ToolDone(w, c) ==
  LET id == w.rc.toolCalls[w.rc.i]
      w1 == Emit(w, <<"tool_execution_end", id>>)
  IN [w1 EXCEPT !.rc.toolResults = Append(@, ToolResult(id, ResultText(w.rc, c))),
                !.rc.steeringMessages = w.sq, !.sq = <<>>]

ToolEnd(r, c) ==
  /\ run[r].pc = "tool"
  /\ run[r].callAborted => c = "error"
  /\ LET s == run[r].sessionKey IN Segment(r, s, SteerChecked(ToolDone(World(r, s), c)))

\* the tool was sessions_spawn: spawnSubagent calls run() on a fresh subagent key
ToolSpawn(r, c) ==
  LET s == run[r].sessionKey
      child == nruns + 1
      e == EnqueueRun(child, resolveSessionLane(c, child), sessionLane, globalLane)
  IN /\ run[r].pc = "tool"
     /\ ~run[r].callAborted
     /\ ~isSubagent[s]
     /\ nruns < MaxRuns
     /\ c # s
     /\ ~SessionUsed(c)
     /\ LET w == SteerChecked(ToolDone(World(r, s), "ok"))
        IN /\ run' = [run EXCEPT ![r] = w.rc, ![child] = [NewRun(c, s) EXCEPT !.pc = e.pc]]
           /\ states' = [states EXCEPT ![s] = w.st]
           /\ files' = [files EXCEPT ![s] = w.fl]
           /\ pendingBySession' = [pendingBySession EXCEPT ![s] = w.pend]
           /\ steeringQueues' = [steeringQueues EXCEPT ![s] = w.sq]
     /\ sessionLane' = e.sl
     /\ globalLane' = e.gl
     /\ nruns' = nruns + 1
     /\ isSubagent' = [isSubagent EXCEPT ![c] = TRUE]
     /\ UNCHANGED <<configVars, resets, componentVars, budgetVars>>

\* the session it appends to: its own, or the parent's for a subagent summary
Target(r) ==
  IF run[r].pc = "then" \/ (run[r].pc = "append" /\ run[r].ret = "summary")
  THEN run[r].parent ELSE run[r].sessionKey

\* the write of the entry in flight succeeded
AppendPersist(r) ==
  /\ run[r].pc = "append"
  /\ Segment(r, Target(r), AppendPersisted(World(r, Target(r))))

\* the write of the entry in flight failed (lock timeout, I/O error)
AppendFail(r) ==
  /\ run[r].pc = "append"
  /\ states[Target(r)].hasAssistant
  /\ FaultSegment(r, Target(r), AppendThrow(World(r, Target(r))))

\* the body's promise settled: the global lane frees its slot, the session task's
\* promise settles with it and the session lane frees its slot
Release(r) ==
  LET lane == resolveSessionLane(run[r].sessionKey, r)
  IN /\ run[r].pc = "settle"
     /\ globalLane' = [globalLane EXCEPT !.active = @ - 1]
     /\ sessionLane' = [sessionLane EXCEPT ![lane].active = @ - 1]
     /\ run' = [run EXCEPT ![r].pc = IF run[r].parent # 0 THEN "then" ELSE "finished"]
     /\ UNCHANGED <<nruns, states, files, pendingBySession, steeringQueues, configVars,
                    resets, componentVars, isSubagent, budgetVars>>

\* spawnSubagent's runPromise.then / .catch
SubagentThen(r) ==
  /\ run[r].pc = "then"
  /\ LET p == run[r].parent
         w == World(r, p)
     IN Segment(r, p, IF run[r].settled = "resolved"
                      THEN AppendCall(w, UserText(<<"summary", r>>), "summary")
                      ELSE [w EXCEPT !.rc.pc = "finished"])

\* agent.steer(sessionKey, text), for a session that has a run queued or under way
Steer(s) ==
  /\ steers < MaxSteers
  /\ Disturbances < MaxDisturbances
  /\ \E r \in Runs : run[r].sessionKey = s /\ run[r].pc \notin {"idle", "finished", "dead"}
  /\ steers' = steers + 1
  /\ steeringQueues' = [steeringQueues EXCEPT ![s] = Append(@, steers + 1)]
  /\ UNCHANGED <<run, nruns, states, files, pendingBySession, laneVars, configVars, resets,
                 componentVars, isSubagent, nextId, faults, aborts, crashes>>

\* agent.abort(runId)
Abort(r) ==
  /\ aborts < MaxAborts
  /\ Disturbances < MaxDisturbances
  /\ aborts' = aborts + 1
  /\ run[r].controller
  /\ ~run[r].aborted
  /\ run' = [run EXCEPT ![r].aborted = TRUE,
                        ![r].abortPc = IF run[r].pc = "append" THEN run[r].ret ELSE run[r].pc,
                        ![r].abortEv = Len(run[r].events),
                        ![r].abortStreamCalls = run[r].streamCalls]
  /\ UNCHANGED <<nruns, states, files, pendingBySession, steeringQueues, laneVars,
                 configVars, resets, componentVars, isSubagent, nextId, steers, faults,
                 crashes>>

\* the process stops and a new one starts: only the session files survive
Crash ==
  /\ crashes < MaxCrashes
  /\ Disturbances < MaxDisturbances
  /\ nruns > 0
  /\ crashes' = crashes + 1
  /\ run' = [r \in Runs |-> IF run[r].pc = "idle" THEN run[r]
                            ELSE [IdleRun EXCEPT !.pc = "dead",
                                                 !.sessionKey = run[r].sessionKey,
                                                 !.parent = run[r].parent,
                                                 !.born = run[r].born]]
  /\ states' = [s \in Sessions |-> NoState]
  /\ pendingBySession' = [s \in Sessions |-> <<>>]
  /\ steeringQueues' = [s \in Sessions |-> <<>>]
  /\ sessionLane' = [s \in Sessions |-> EmptyLane]
  /\ globalLane' = EmptyLane
  /\ UNCHANGED <<nruns, files, configVars, resets, componentVars, isSubagent, nextId,
                 steers, faults, aborts>>

\* ------------------------------------------------------------ components at rest
NullId == 0

NoSessionState ==
  [loaded |-> FALSE, entries |-> <<>>, leafId |-> NullId, flushed |-> FALSE,
   hasAssistant |-> FALSE]

NoSessionFile == [exists |-> FALSE, lines |-> <<>>]

SessionAtRest ==
  /\ sessionState = NoSessionState
  /\ sessionFile = NoSessionFile
  /\ persisting = {}
  /\ lastId = 0
  /\ restarts = 0
  /\ runKept = [id |-> NullId, kept |-> <<>>]

MaxAcquirers == 3     \* acquireSessionWriteLock callers

Acquirers == 1..MaxAcquirers

NoLock == [exists |-> FALSE, creator |-> 0, payload |-> <<>>]

LockAtRest ==
  /\ lockFile = NoLock
  /\ acquirers = [a \in Acquirers |-> "idle"]
  /\ staleRemoved = {}

NoPruneParams ==
  [messages |-> <<>>, contextWindowTokens |-> 1, keepLastAssistants |-> 0,
   tools |-> [allow |-> {}, deny |-> {}]]

PruneAtRest ==
  /\ pruneParams = NoPruneParams
  /\ pruneResult = <<>>

MaxListeners == 3     \* subscribers of the agent

ListenerIds == 1..MaxListeners

EmitAtRest ==
  /\ listeners = <<>>
  /\ received = [l \in ListenerIds |-> <<>>]
  /\ emitted = <<>>
  /\ thrown = <<>>
  /\ since = [l \in ListenerIds |-> 0]
  /\ emitThrew = FALSE

MaxInstalls == 3      \* installSessionToolResultGuard calls on one SessionManager

GuardIds == 1..MaxInstalls

\* a new SessionManager: append is the class method, no guard field is set
NewSessionManager ==
  [append |-> <<>>, installed |-> FALSE, guard |-> <<>>, entries |-> <<>>]

InstallAtRest ==
  /\ sm = NewSessionManager
  /\ guardPending = [g \in GuardIds |-> <<>>]
  /\ returned = <<>>
  /\ oneInstall = [entries |-> <<>>, pending |-> <<>>, installs |-> 0]

\* before the provider call of a turn: the three arrays as declared, nothing appended
TurnAtRest ==
  /\ llm = [pc |-> "idle", attempt |-> 1, aborted |-> FALSE,
            overflowCompactionAttempted |-> FALSE, discarded |-> FALSE]
  /\ assistantContent = <<>>
  /\ turnToolCalls = <<>>
  /\ turnTextParts = <<>>
  /\ streamed = <<>>
  /\ turnLog = <<>>

NoTimer == 0
NoTime == -1
NoReason == "null"
NoRun == [startMs |-> NoTime, reason |-> NoReason]

\* new HeartbeatManager(workspaceDir, config) and its new HeartbeatWake
NewHeartbeat(enabled) ==
  [started |-> FALSE, enabled |-> enabled, timer |-> NoTimer, lastRunMs |-> NoTime,
   timers |-> {},
   wake |-> [pendingReason |-> NoReason, scheduled |-> FALSE, running |-> FALSE,
             timer |-> FALSE]]

HeartbeatAtRest ==
  /\ hb = NewHeartbeat(TRUE)
  /\ hbRuns = [wake |-> NoRun, trigger |-> NoRun]
  /\ hbClock = 0
  /\ hbCalls = 0
  /\ hbSeen = [lastInterval |-> NoTime, tooSoon |-> FALSE, afterStop |-> FALSE]

ComponentsAtRest ==
  SessionAtRest /\ LockAtRest /\ PruneAtRest /\ EmitAtRest /\ InstallAtRest /\ TurnAtRest /\ HeartbeatAtRest

Init ==
  /\ run = [r \in Runs |-> IdleRun]
  /\ nruns = 0
  /\ states = [s \in Sessions |-> NoState]
  /\ files = [s \in Sessions |-> NoFile]
  /\ pendingBySession = [s \in Sessions |-> <<>>]
  /\ steeringQueues = [s \in Sessions |-> <<>>]
  /\ sessionLane = [s \in Sessions |-> EmptyLane]
  /\ globalLane = EmptyLane
  /\ maxConcurrentRuns \in {<<>>} \cup {<<n>> : n \in 1..MaxCap}
  /\ shouldBlock \in BOOLEAN
  /\ isSubagent = [s \in Sessions |-> FALSE]
  /\ nextId = 0
  /\ steers = 0
  /\ faults = 0
  /\ aborts = 0
  /\ crashes = 0
  /\ resets = 0
  /\ ComponentsAtRest

Next ==
  \/ \E s \in Sessions : RunCall(s)
  \/ \E r \in Runs : SessionAdmit(r)
  \/ \E r \in Runs : GlobalAdmit(r)
  \/ \E r \in Runs : Prepared(r)
  \/ \E r \in Runs : PrepareFailed(r)
  \/ \E r \in Runs, n \in 0..MaxTools : StreamOk(r, n)
  \/ \E r \in Runs, kind \in {"ratelimit", "overflow", "other"} : StreamFailed(r, kind)
  \/ \E r \in Runs : StreamAborted(r)
  \/ \E r \in Runs : Backoff(r)
  \/ \E r \in Runs, summary \in BOOLEAN : Compacted(r, summary)
  \/ \E r \in Runs, c \in {"ok", "error"} : ToolEnd(r, c)
  \/ \E r \in Runs, c \in Sessions : ToolSpawn(r, c)
  \/ \E r \in Runs : AppendPersist(r)
  \/ \E r \in Runs : AppendFail(r)
  \/ \E r \in Runs : Release(r)
  \/ \E r \in Runs : SubagentThen(r)
  \/ \E s \in Sessions : Steer(s)
  \/ \E r \in Runs : Abort(r)
  \/ Crash

Spec == Init /\ [][Next]_vars

\* the steps of run r that wait for nothing but the run itself: a provider call, a
\* tool call, a delay or a log write returns (with a result or an error), the
\* body's promise settles
RunStep(r) ==
  \/ Prepared(r)
  \/ PrepareFailed(r)
  \/ \E n \in 0..MaxTools : StreamOk(r, n)
  \/ \E kind \in {"ratelimit", "overflow", "other"} : StreamFailed(r, kind)
  \/ StreamAborted(r)
  \/ Backoff(r)
  \/ \E summary \in BOOLEAN : Compacted(r, summary)
  \/ \E c \in {"ok", "error"} : ToolEnd(r, c)
  \/ \E c \in Sessions : ToolSpawn(r, c)
  \/ AppendPersist(r)
  \/ AppendFail(r)
  \/ Release(r)

\* a step that changed run r and is no abort and no restart: a step of RunStep(r)
RunChanged(r) ==
  run'[r] # run[r] /\ run'[r].aborted = run[r].aborted /\ crashes' = crashes

\* every call that run r awaits returns.  Between the run's admission and the
\* release of its slots a step of RunStep(r) is enabled, so this is WF_vars(RunStep(r))
\* with the enabling condition written as the run's position.
RunFair(r) ==
  []<>(run[r].pc \notin {"prep", "stream", "backoff", "compact", "tool", "settle", "append"})
    \/ []<><<RunChanged(r)>>_vars

\* the agent as constructed, in an environment that disturbs it once at most
InitFair ==
  /\ run = [r \in Runs |-> IdleRun]
  /\ nruns = 0
  /\ states = [s \in Sessions |-> NoState]
  /\ files = [s \in Sessions |-> NoFile]
  /\ pendingBySession = [s \in Sessions |-> <<>>]
  /\ steeringQueues = [s \in Sessions |-> <<>>]
  /\ sessionLane = [s \in Sessions |-> EmptyLane]
  /\ globalLane = EmptyLane
  /\ maxConcurrentRuns \in {<<>>} \cup {<<n>> : n \in 1..MaxCap}
  /\ shouldBlock \in BOOLEAN
  /\ isSubagent = [s \in Sessions |-> FALSE]
  /\ nextId = 0
  /\ steers = 0
  /\ faults = 0
  /\ aborts = 0
  /\ crashes = 0
  /\ resets = MaxDisturbances - 1
  /\ ComponentsAtRest

SpecFair == InitFair /\ [][Next]_vars /\ \A r \in Runs : RunFair(r)

\* ------------------------------------------------------------ reset
\* agent.reset(sessionKey): sessions.clear deletes the cached state and unlinks the
\* file.  A call made while an append to the session awaits its write is left out.
Reset(s) ==
  /\ resets < MaxResets
  /\ Disturbances < MaxDisturbances
  /\ states[s].loaded \/ files[s].exists
  /\ \A r \in Runs : run[r].pc = "append" => Target(r) # s
  /\ resets' = resets + 1
  /\ states' = [states EXCEPT ![s] = NoState]
  /\ files' = [files EXCEPT ![s] = NoFile]
  /\ UNCHANGED <<run, nruns, pendingBySession, steeringQueues, laneVars, configVars,
                 isSubagent, budgetVars, componentVars>>

\* the agent with reset among its operations; Spec is the agent on which reset is
\* not called
NextReset ==
  \/ Next
  \/ \E s \in Sessions : Reset(s)

SpecReset == Init /\ [][NextReset]_vars

\* ============================================================ SessionManager, one session
\* One session of the SessionManager with its entries in full: ids, parentId links,
\* compaction entries and the header line of the file.  append and appendCompaction
\* may be called while earlier calls still wait for the write lock (a subagent's
\* summary is appended to the parent session while the parent's run appends).
MaxEntries == 4       \* append and appendCompaction calls per behaviour
MaxRestarts == 1      \* process restarts per behaviour

EntryIds == 1..MaxEntries

SessionHeader ==
  [type |-> "session", id |-> NullId, parentId |-> NullId, role |-> "none",
   firstKeptEntryId |-> NullId]

MessageEntry(id, parentId, role) ==
  [type |-> "message", id |-> id, parentId |-> parentId, role |-> role,
   firstKeptEntryId |-> NullId]

CompactionEntry(id, parentId, firstKeptEntryId) ==
  [type |-> "compaction", id |-> id, parentId |-> parentId, role |-> "none",
   firstKeptEntryId |-> firstKeptEntryId]

\* entry.message: the text of a message is told apart by the id of its entry
EntryMessage(entry) == [role |-> entry.role, content |-> <<"message", entry.id>>]

\* the summary of a compaction entry, wrapped in the summary prefix and suffix
createCompactionSummaryMessage(entry) ==
  [role |-> "user", content |-> <<"summary", entry.id>>]

\* generateId: an id that byId does not hold
generateId == lastId + 1

\* state.byId: filled by set() in entry order, so the last entry of an id wins
HasId(entries, id) == \E k \in 1..Len(entries) : entries[k].id = id

ById(entries, id) ==
  LET k == CHOOSE k \in 1..Len(entries) :
             /\ entries[k].id = id
             /\ \A j \in (k + 1)..Len(entries) : entries[j].id # id
  IN entries[k]

\* the while loop of buildSessionContext: from an entry back along parentId
RECURSIVE PathTo(_, _)
PathTo(entries, id) ==
  IF id = NullId \/ ~HasId(entries, id) THEN <<>>
  ELSE Append(PathTo(entries, ById(entries, id).parentId), ById(entries, id))

\* latestCompaction as it would be did the first compaction entry of the path govern
RECURSIVE firstCompaction(_)
firstCompaction(path) ==
  IF path = <<>> THEN 0
  ELSE IF Head(path).type = "compaction" THEN 1
  ELSE LET k == firstCompaction(Tail(path)) IN IF k = 0 THEN 0 ELSE k + 1

\* the loop that keeps the last compaction entry of the path, as an index
RECURSIVE latestCompaction(_)
latestCompaction(path) ==
  IF path = <<>> THEN 0
  ELSE IF path[Len(path)].type = "compaction" THEN Len(path)
  ELSE latestCompaction(SubSeq(path, 1, Len(path) - 1))

\* appendMessage over a stretch of the path
RECURSIVE appendMessages(_)
appendMessages(path) ==
  IF path = <<>> THEN <<>>
  ELSE (IF Head(path).type = "message" THEN <<EntryMessage(Head(path))>> ELSE <<>>)
       \o appendMessages(Tail(path))

\* the loop over the entries before the compaction with its foundFirstKept flag
RECURSIVE keptBefore(_, _, _)
keptBefore(path, firstKeptEntryId, foundFirstKept) ==
  IF path = <<>> THEN <<>>
  ELSE LET found == foundFirstKept \/ Head(path).id = firstKeptEntryId
       IN (IF found /\ Head(path).type = "message"
           THEN <<EntryMessage(Head(path))>> ELSE <<>>)
          \o keptBefore(Tail(path), firstKeptEntryId, found)

buildSessionContext(state) ==
  IF Len(state.entries) = 0 \/ state.leafId = NullId THEN <<>>
  ELSE LET path == PathTo(state.entries, state.leafId)
           compactionIdx == latestCompaction(path)
       IN IF compactionIdx = 0 THEN appendMessages(path)
          ELSE <<createCompactionSummaryMessage(path[compactionIdx])>>
               \o keptBefore(SubSeq(path, 1, compactionIdx - 1),
                             path[compactionIdx].firstKeptEntryId, FALSE)
               \o appendMessages(SubSeq(path, compactionIdx + 1, Len(path)))

\* buildStateFromEntries on the entry lines of a file
buildStateFromFileEntries(entries) ==
  [loaded |-> TRUE, entries |-> entries,
   leafId |-> IF entries = <<>> THEN NullId ELSE entries[Len(entries)].id,
   flushed |-> TRUE,
   hasAssistant |-> \E k \in 1..Len(entries) :
                       entries[k].type = "message" /\ entries[k].role = "assistant"]

\* loadSessionFile: the lines after the header that are entries
loadSessionFile(file) ==
  SelectSeq(Tail(file.lines), LAMBDA l : l.type \in {"message", "compaction"})

\* ensureState: the cached state, the state read from the file, or a fresh one
ensureSessionState(state, file) ==
  IF state.loaded THEN state
  ELSE IF file.exists /\ file.lines # <<>> /\ Head(file.lines).type = "session"
  THEN buildStateFromFileEntries(loadSessionFile(file))
  ELSE [NoSessionState EXCEPT !.loaded = TRUE]

\* the in-memory part of append and appendCompaction
pushEntry(state, entry) ==
  [state EXCEPT !.entries = Append(@, entry),
                !.leafId = entry.id,
                !.hasAssistant = @ \/ (entry.type = "message" /\ entry.role = "assistant")]

\* persistEntry as it would be without its hasAssistant test
persistEntryCallAlways(state, entry, waiting) == waiting \cup {entry}

\* persistEntry up to its await of the write lock
persistEntryCall(state, entry, waiting) ==
  IF ~state.hasAssistant THEN waiting ELSE waiting \cup {entry}

\* rewriteSessionFile: the header and every entry of the state
rewriteSessionFile(state) ==
  [exists |-> TRUE, lines |-> <<SessionHeader>> \o state.entries]

\* the text a write left at the end of the file when the process died in it: the
\* beginning of an entry's JSON, without the newline
PartialLine ==
  [type |-> "partial", id |-> NullId, parentId |-> NullId, role |-> "none",
   firstKeptEntryId |-> NullId]

\* a whole line that JSON.parse rejects
BrokenLine == [PartialLine EXCEPT !.type = "broken"]

\* fs.appendFile(filePath, JSON.stringify(entry) + "\n"): the text goes directly
\* after the last character of the file, so after an unterminated line it makes one
\* line with it
appendFile(lines, entry) ==
  IF lines # <<>> /\ lines[Len(lines)].type = "partial"
  THEN [lines EXCEPT ![Len(lines)] = BrokenLine]
  ELSE Append(lines, entry)

\* persistEntry once it holds the write lock
persistEntryWrite(state, file, entry) ==
  IF ~state.flushed THEN rewriteSessionFile(state)
  ELSE [exists |-> TRUE, lines |-> appendFile(file.lines, entry)]

mainVars ==
  <<run, nruns, states, files, pendingBySession, steeringQueues, sessionLane,
    globalLane, maxConcurrentRuns, shouldBlock, isSubagent, nextId, steers,
    faults, aborts, crashes, resets>>

\* what the actions of one component leave alone
apartFromSession == <<mainVars, lockVars, pruneVars, emitVars, installVars, turnVars, heartbeatVars>>
apartFromLock == <<mainVars, sessionVars, pruneVars, emitVars, installVars, turnVars, heartbeatVars>>
apartFromPrune == <<mainVars, sessionVars, lockVars, emitVars, installVars, turnVars, heartbeatVars>>
apartFromEmit == <<mainVars, sessionVars, lockVars, pruneVars, installVars, turnVars, heartbeatVars>>
apartFromInstall == <<mainVars, sessionVars, lockVars, pruneVars, emitVars, turnVars, heartbeatVars>>
apartFromTurn == <<mainVars, sessionVars, lockVars, pruneVars, emitVars, installVars, heartbeatVars>>
apartFromHeartbeat == <<mainVars, sessionVars, lockVars, pruneVars, emitVars, installVars, turnVars>>

\* sessions.append(sessionKey, message)
SessionAppend(role) ==
  /\ lastId < MaxEntries
  /\ LET state == ensureSessionState(sessionState, sessionFile)
         entry == MessageEntry(generateId, state.leafId, role)
         pushed == pushEntry(state, entry)
     IN /\ sessionState' = pushed
        /\ persisting' = persistEntryCall(pushed, entry, persisting)
  /\ lastId' = lastId + 1
  /\ UNCHANGED <<sessionFile, restarts, runKept, apartFromSession>>

\* sessions.appendCompaction(sessionKey, summary, firstKeptEntryId, tokensBefore),
\* called by run() with the id of a message entry of the session
SessionAppendCompaction(firstKeptEntryId) ==
  /\ lastId < MaxEntries
  /\ LET state == ensureSessionState(sessionState, sessionFile)
         entry == CompactionEntry(generateId, state.leafId, firstKeptEntryId)
         pushed == pushEntry(state, entry)
     IN /\ \E k \in 1..Len(state.entries) :
             /\ state.entries[k].type = "message"
             /\ state.entries[k].id = firstKeptEntryId
        /\ sessionState' = pushed
        /\ persisting' = persistEntryCall(pushed, entry, persisting)
  /\ lastId' = lastId + 1
  /\ UNCHANGED <<sessionFile, restarts, runKept, apartFromSession>>

\* a waiting persistEntry call obtains the write lock, writes and releases
SessionWritten(entry) ==
  /\ entry \in persisting
  /\ sessionFile' = persistEntryWrite(sessionState, sessionFile, entry)
  /\ sessionState' = [sessionState EXCEPT !.flushed = TRUE]
  /\ persisting' = persisting \ {entry}
  /\ UNCHANGED <<lastId, restarts, runKept, apartFromSession>>

\* sessions.load(sessionKey) of a session that is not cached
SessionLoad ==
  /\ ~sessionState.loaded
  /\ sessionState' = ensureSessionState(sessionState, sessionFile)
  /\ UNCHANGED <<sessionFile, persisting, lastId, restarts, runKept, apartFromSession>>

\* the process stops and a new one starts: only the file survives
SessionRestart ==
  /\ restarts < MaxRestarts
  /\ sessionState.loaded
  /\ restarts' = restarts + 1
  /\ sessionState' = NoSessionState
  /\ persisting' = {}
  /\ UNCHANGED <<sessionFile, lastId, runKept, apartFromSession>>

MainAtRest ==
  /\ run = [r \in Runs |-> IdleRun]
  /\ nruns = 0
  /\ states = [s \in Sessions |-> NoState]
  /\ files = [s \in Sessions |-> NoFile]
  /\ pendingBySession = [s \in Sessions |-> <<>>]
  /\ steeringQueues = [s \in Sessions |-> <<>>]
  /\ sessionLane = [s \in Sessions |-> EmptyLane]
  /\ globalLane = EmptyLane
  /\ maxConcurrentRuns = <<>>
  /\ shouldBlock = FALSE
  /\ isSubagent = [s \in Sessions |-> FALSE]
  /\ nextId = 0
  /\ steers = 0
  /\ faults = 0
  /\ aborts = 0
  /\ crashes = 0
  /\ resets = 0

InitSession ==
  MainAtRest /\ SessionAtRest /\ LockAtRest /\ PruneAtRest /\ EmitAtRest /\ InstallAtRest /\ TurnAtRest /\ HeartbeatAtRest

NextSession ==
  \/ \E role \in {"user", "assistant"} : SessionAppend(role)
  \/ \E id \in EntryIds : SessionAppendCompaction(id)
  \/ \E entry \in persisting : SessionWritten(entry)
  \/ SessionLoad
  \/ SessionRestart

SpecSession == InitSession /\ [][NextSession]_vars

\* ------------------------------------------------------------ torn writes
\* the process dies inside the appendFile of a waiting persistEntry call: part of
\* the line is in the file, and a new process starts
SessionTornWrite(entry) ==
  /\ restarts < MaxRestarts
  /\ entry \in persisting
  /\ sessionState.flushed
  /\ sessionFile.exists
  /\ restarts' = restarts + 1
  /\ sessionFile' = [sessionFile EXCEPT !.lines = Append(@, PartialLine)]
  /\ sessionState' = NoSessionState
  /\ persisting' = {}
  /\ UNCHANGED <<lastId, runKept, apartFromSession>>

NextSessionTorn ==
  \/ NextSession
  \/ \E entry \in persisting : SessionTornWrite(entry)

SpecSessionTorn == InitSession /\ [][NextSessionTorn]_vars

\* ------------------------------------------------------------ failed writes
\* a waiting persistEntry call rejects: acquireSessionWriteLock throws after
\* timeoutMs, or the write throws and the finally releases the lock.  append has no
\* catch, so the rejection goes to its caller and the state stays as it is
SessionPersistFailed(entry) ==
  /\ entry \in persisting
  /\ persisting' = persisting \ {entry}
  /\ UNCHANGED <<sessionState, sessionFile, lastId, restarts, runKept, apartFromSession>>

NextSessionFail ==
  \/ NextSession
  \/ \E entry \in persisting : SessionPersistFailed(entry)

SpecSessionFail == InitSession /\ [][NextSessionFail]_vars

\* ------------------------------------------------------------ run-start compaction
\* message.timestamp: Date.now() when the message was built; the messages of a session
\* are built at different times, here the time of entry id is id
Timestamp(id) == id

\* a message as run() holds it: the message of an entry by reference, or a copy of it
\* that soft trim or hard clear made (cloneMessage keeps role and timestamp)
RunMessage(m, cloned) ==
  [role |-> m.role, content |-> m.content,
   ref |-> IF cloned \/ m.content[1] = "summary" THEN NullId ELSE m.content[2],
   timestamp |-> IF m.content[1] = "summary" THEN 0 ELSE Timestamp(m.content[2])]

\* the for loop of resolveMessageEntryId: the first message entry, from position k on,
\* with the timestamp and role of msg
RECURSIVE entryByTimestamp(_, _, _)
entryByTimestamp(entries, k, msg) ==
  IF k > Len(entries) THEN NullId
  ELSE IF /\ entries[k].type = "message"
          /\ Timestamp(entries[k].id) = msg.timestamp
          /\ entries[k].role = msg.role
       THEN entries[k].id
       ELSE entryByTimestamp(entries, k + 1, msg)

\* resolveMessageEntryId as it would be did it take the first message entry
resolveFirstMessageEntry(state, msg) ==
  IF msg.content[1] = "summary" THEN NullId
  ELSE LET ids == {k \in 1..Len(state.entries) : state.entries[k].type = "message"}
       IN IF ids = {} THEN NullId
          ELSE state.entries[CHOOSE k \in ids : \A j \in ids : k <= j].id

\* resolveMessageEntryId(sessionKey, message): NullId stands for undefined
resolveMessageEntryId(state, msg) ==
  IF msg.content[1] = "summary" THEN NullId
  ELSE IF ~state.loaded THEN NullId
  ELSE IF msg.ref # NullId THEN msg.ref
  ELSE entryByTimestamp(state.entries, 1, msg)

\* for (const msg of prep.pruned.messages) { candidate = resolve...; if (candidate) break }
RECURSIVE firstKeptEntry(_, _)
firstKeptEntry(state, msgs) ==
  IF msgs = <<>> THEN NullId
  ELSE LET candidate == resolveMessageEntryId(state, Head(msgs))
       IN IF candidate # NullId THEN candidate ELSE firstKeptEntry(state, Tail(msgs))

\* run() after its append of the user message has resolved: prepareMessagesForRun
\* pruned [...history, userMsg], keeping the messages from position cut on, the first
\* of them as a copy or not, and made a summary of the dropped ones; the compaction
\* entry is appended when a kept message resolves to an entry id
RunStartCompaction(cut, cloned) ==
  /\ lastId < MaxEntries
  /\ sessionState.loaded
  /\ persisting = {}
  /\ sessionState.entries # <<>>
  /\ LET state == sessionState
         leaf == state.entries[Len(state.entries)]
         currentMessages == buildSessionContext(state)
         kept == SubSeq(currentMessages, cut, Len(currentMessages))
         pruned == [k \in 1..Len(kept) |->
                      RunMessage(kept[k], cloned /\ k = 1 /\ kept[k].role = "user")]
         firstKeptEntryId == firstKeptEntry(state, pruned)
         entry == CompactionEntry(generateId, state.leafId, firstKeptEntryId)
         pushed == pushEntry(state, entry)
     IN /\ leaf.type = "message" /\ leaf.role = "user"
        /\ cut \in 2..Len(currentMessages)
        /\ firstKeptEntryId # NullId
        /\ sessionState' = pushed
        /\ persisting' = persistEntryCall(pushed, entry, persisting)
        /\ runKept' = [id |-> entry.id, kept |-> kept]
  /\ lastId' = lastId + 1
  /\ UNCHANGED <<sessionFile, restarts, apartFromSession>>

NextSessionRun ==
  \/ \E role \in {"user", "assistant"} : SessionAppend(role)
  \/ \E cut \in 2..(MaxEntries + 1), cloned \in BOOLEAN : RunStartCompaction(cut, cloned)
  \/ \E entry \in persisting : SessionWritten(entry)
  \/ SessionLoad
  \/ SessionRestart

SpecSessionRun == InitSession /\ [][NextSessionRun]_vars

\* ============================================================ session write lock
\* acquireSessionWriteLock on one session file, step by step: every await of the
\* file system is a point where another caller may run.  The callers are live
\* processes (or calls of one process); the lock file that may be there at the
\* start was left by a process that died.  A payload is <<pid, createdAt>>, the
\* createdAt "old" when it is more than staleMs ago and "recent" otherwise; no lock
\* written in the model reaches the age of staleMs.  Time passes in the delays only:
\* the timeout test of the while loop fails only after a delay.
DeadPid == MaxAcquirers + 1

\* the lock files a process that died may have left: none, one with its pid, one it
\* had not written yet, and one older than staleMs that carries the pid of a live
\* process
LeftLocks ==
  {NoLock} \cup
  {[exists |-> TRUE, creator |-> DeadPid, payload |-> p] :
     p \in {<<DeadPid, "recent">>, <<>>, <<1, "old">>}}

\* isAlive(pid)
isAlive(pid) == pid \in Acquirers

\* fs.open(lockPath, "wx"): creates the file, or fails with EEXIST
LockOpen(a) ==
  /\ acquirers[a] = "open"
  /\ IF lockFile.exists
     THEN /\ acquirers' = [acquirers EXCEPT ![a] = "read"]
          /\ UNCHANGED lockFile
     ELSE /\ acquirers' = [acquirers EXCEPT ![a] = "write"]
          /\ lockFile' = [exists |-> TRUE, creator |-> a, payload |-> <<>>]
  /\ UNCHANGED <<staleRemoved, apartFromLock>>

\* handle.writeFile(pid, createdAt) on the file this caller created, which may
\* have been removed from lockPath since; the call then returns the lock
LockWrite(a) ==
  /\ acquirers[a] = "write"
  /\ lockFile' = IF lockFile.exists /\ lockFile.creator = a
                 THEN [lockFile EXCEPT !.payload = <<a, "recent">>]
                 ELSE lockFile
  /\ acquirers' = [acquirers EXCEPT ![a] = "held"]
  /\ UNCHANGED <<staleRemoved, apartFromLock>>

\* LockRead with the test of line 73 reduced to "if (stale)"
LockReadStaleOnly(a) ==
  /\ acquirers[a] = "read"
  /\ LET payload == IF lockFile.exists THEN lockFile.payload ELSE <<>>
         stale == payload = <<>> \/ payload[2] = "old"
     IN acquirers' = [acquirers EXCEPT ![a] = IF stale THEN "rm" ELSE "sleep"]
  /\ UNCHANGED <<lockFile, staleRemoved, apartFromLock>>

\* readLockPayload and the stale / alive tests: null for a missing, empty or
\* half-written file, which counts as stale
LockRead(a) ==
  /\ acquirers[a] = "read"
  /\ LET payload == IF lockFile.exists THEN lockFile.payload ELSE <<>>
         stale == payload = <<>> \/ payload[2] = "old"
         alive == payload # <<>> /\ isAlive(payload[1])
     IN acquirers' = [acquirers EXCEPT ![a] = IF stale \/ ~alive THEN "rm" ELSE "sleep"]
  /\ UNCHANGED lockFile
  /\ UNCHANGED <<staleRemoved, apartFromLock>>

\* fs.rm(lockPath, { force: true }) of the lock judged stale, then the next attempt
LockRemoveStale(a) ==
  /\ acquirers[a] = "rm"
  /\ lockFile' = NoLock
  /\ acquirers' = [acquirers EXCEPT ![a] = "open"]
  /\ staleRemoved' = IF lockFile.exists /\ lockFile.creator = DeadPid
                     THEN staleRemoved \cup {a} ELSE staleRemoved
  /\ UNCHANGED <<apartFromLock>>

\* the delay is over: the next attempt, or the timeout error once timeoutMs is over
LockRetry(a, timedOut) ==
  /\ acquirers[a] = "sleep"
  /\ acquirers' = [acquirers EXCEPT ![a] = IF timedOut THEN "idle" ELSE "open"]
  /\ UNCHANGED lockFile
  /\ UNCHANGED <<staleRemoved, apartFromLock>>

\* acquireSessionWriteLock is called
LockAcquire(a) ==
  /\ acquirers[a] = "idle"
  /\ acquirers' = [acquirers EXCEPT ![a] = "open"]
  /\ UNCHANGED lockFile
  /\ UNCHANGED <<staleRemoved, apartFromLock>>

\* release(): handle.close() and fs.rm(lockPath, { force: true })
LockRelease(a) ==
  /\ acquirers[a] = "held"
  /\ lockFile' = NoLock
  /\ acquirers' = [acquirers EXCEPT ![a] = "idle"]
  /\ UNCHANGED <<staleRemoved, apartFromLock>>

InitLock ==
  /\ MainAtRest
  /\ SessionAtRest
  /\ PruneAtRest
  /\ EmitAtRest
  /\ InstallAtRest /\ TurnAtRest /\ HeartbeatAtRest
  /\ acquirers = [a \in Acquirers |-> "idle"]
  /\ staleRemoved = {}
  /\ lockFile \in LeftLocks

NextLock ==
  \/ \E a \in Acquirers : LockAcquire(a)
  \/ \E a \in Acquirers : LockOpen(a)
  \/ \E a \in Acquirers : LockWrite(a)
  \/ \E a \in Acquirers : LockRead(a)
  \/ \E a \in Acquirers : LockRemoveStale(a)
  \/ \E a \in Acquirers, timedOut \in BOOLEAN : LockRetry(a, timedOut)
  \/ \E a \in Acquirers : LockRelease(a)

SpecLock == InitLock /\ [][NextLock]_vars

\* every call that was made goes on: its file system calls return, its delay ends
\* and the holder of the lock releases it (persistEntry releases in a finally)
LockFairness ==
  \A a \in Acquirers :
    /\ WF_vars(LockOpen(a))
    /\ WF_vars(LockWrite(a))
    /\ WF_vars(LockRead(a))
    /\ WF_vars(LockRemoveStale(a))
    /\ WF_vars(\E timedOut \in BOOLEAN : LockRetry(a, timedOut))
    /\ WF_vars(LockRelease(a))

SpecLockFair == SpecLock /\ LockFairness

\* ============================================================ pruneContextMessages
\* One call of pruneContextMessages.  A message is its role, whether its content is
\* a text or one tool_result block, the number of characters of that content and
\* ref, the identity of the object: the messages of params.messages are the objects
\* 1..n in order, the k-th copy made of object i is i + k * MaxMessages.  A
\* tool_result message also has the name of the tool that produced its block and
\* the block's tool_use_id.  A name, an id or a pattern is a pair of its leading
\* text and the rest: <<"exec", "">> is "exec", <<"toolu_", 2>> the id "toolu_2",
\* <<"", "*">> the pattern "*".  The three layers are computed on these numbers as
\* the code computes them.
MaxMessages == 4      \* messages in params.messages

CHARS_PER_TOKEN_ESTIMATE == 4

\* DEFAULT_CONTEXT_PRUNING_SETTINGS, the ratios in hundredths
MaxHistorySharePct == 50
SoftTrimRatioPct == 30
HardClearRatioPct == 50
MinPrunableToolChars == 50000
SoftTrimMaxChars == 4000
SoftTrimHeadChars == 1500
SoftTrimTailChars == 1500
PlaceholderChars == 33     \* length of hardClear.placeholder
TrimNoteChars == 74        \* characters of the trimmed text besides head, tail, numbers

TextChars == {500, 5000}
ToolResultChars == {5000, 60000}

ToolNames == {<<"exec", "">>, <<"read", "">>}
NoName == <<"", "">>

PruneMessages ==
  {[role |-> role, kind |-> "text", chars |-> n, toolName |-> NoName] :
     role \in {"user", "assistant"}, n \in TextChars}
  \cup {[role |-> "user", kind |-> "tool_result", chars |-> n, toolName |-> name] :
          n \in ToolResultChars, name \in ToolNames}

\* settings.tools: the default, a deny list, an allow list, a deny list of "*"
ToolMatches ==
  {[allow |-> {}, deny |-> {}],
   [allow |-> {}, deny |-> {<<"exec", "">>}],
   [allow |-> {<<"read", "">>}, deny |-> {}],
   [allow |-> {}, deny |-> {<<"", "*">>}]}

ContextWindowTokens == {250, 2000, 40000}
KeepLastAssistants == {0, 1, 3}

estimateMessageChars(msg) == msg.chars

\* the messages q as the distinct objects 1..Len(q), the block of the k-th one
\* answering the tool call "toolu_k"
Objects(q) ==
  [k \in 1..Len(q) |->
     [role |-> q[k].role, kind |-> q[k].kind, chars |-> q[k].chars, ref |-> k,
      toolName |-> q[k].toolName,
      tool_use_id |-> IF q[k].kind = "tool_result" THEN <<"toolu_", k>> ELSE NoName]]

\* matchGlob(value, pattern): "*" matches all, a pattern without "*" matches the
\* equal value, a pattern "text*" the values that start with text
matchGlob(value, pattern) ==
  IF pattern = <<"", "*">> THEN TRUE
  ELSE IF pattern[2] # "*" THEN value = pattern
  ELSE value[1] = pattern[1]

\* the predicate makeToolPrunablePredicate(match) returns, applied to toolName
isPrunable(match, toolName) ==
  IF \E pattern \in match.deny : matchGlob(toolName, pattern) THEN FALSE
  ELSE IF match.allow = {} THEN TRUE
  ELSE \E pattern \in match.allow : matchGlob(toolName, pattern)

\* cloneMessage(message, content): a new object with the content replaced
cloneMessage(msg, chars) == [msg EXCEPT !.chars = chars, !.ref = @ + MaxMessages]

RECURSIVE estimateMessagesChars(_)
estimateMessagesChars(messages) ==
  IF messages = <<>> THEN 0
  ELSE estimateMessageChars(Head(messages)) + estimateMessagesChars(Tail(messages))

\* the number of decimal digits of n, as the template prints it
RECURSIVE Digits(_)
Digits(n) == IF n < 10 THEN 1 ELSE 1 + Digits(n \div 10)

\* softTrimToolResultBlock on the block of a message
softTrimToolResultBlock(msg, tools) ==
  IF msg.kind # "tool_result" THEN msg
  ELSE IF ~isPrunable(tools, msg.tool_use_id) THEN msg
  ELSE IF msg.chars <= SoftTrimMaxChars THEN msg
  ELSE IF SoftTrimHeadChars + SoftTrimTailChars >= msg.chars THEN msg
  ELSE cloneMessage(msg, SoftTrimHeadChars + SoftTrimTailChars + TrimNoteChars
                          + Digits(SoftTrimHeadChars) + Digits(SoftTrimTailChars)
                          + Digits(msg.chars))

applySoftTrim(messages, tools) ==
  [k \in 1..Len(messages) |-> softTrimToolResultBlock(messages[k], tools)]

RECURSIVE countPrunableToolChars(_, _)
countPrunableToolChars(messages, tools) ==
  IF messages = <<>> THEN 0
  ELSE (IF /\ Head(messages).kind = "tool_result"
           /\ isPrunable(tools, Head(messages).tool_use_id)
        THEN Head(messages).chars ELSE 0)
       + countPrunableToolChars(Tail(messages), tools)

\* the loop of applyHardClear with its running totalChars
RECURSIVE hardClearLoop(_, _, _, _)
hardClearLoop(messages, tools, totalChars, charWindow) ==
  IF messages = <<>> THEN <<>>
  ELSE LET msg == Head(messages)
       IN IF /\ msg.kind = "tool_result"
             /\ msg.chars > 0
             /\ isPrunable(tools, msg.tool_use_id)
             /\ ~(totalChars * 100 < HardClearRatioPct * charWindow)
          THEN <<cloneMessage(msg, PlaceholderChars)>>
               \o hardClearLoop(Tail(messages), tools,
                                totalChars - (msg.chars - PlaceholderChars), charWindow)
          ELSE <<msg>> \o hardClearLoop(Tail(messages), tools, totalChars, charWindow)

applyHardClear(messages, tools, charWindow) ==
  LET totalChars == estimateMessagesChars(messages)
  IN IF totalChars * 100 < HardClearRatioPct * charWindow THEN messages
     ELSE IF countPrunableToolChars(messages, tools) < MinPrunableToolChars THEN messages
     ELSE hardClearLoop(messages, tools, totalChars, charWindow)

\* the number of messages that differ between two lists of one length
Changed(before, after) ==
  Cardinality({k \in 1..Len(before) : before[k] # after[k]})

\* findAssistantCutoffIndex, positions counted from 1: 0 stands for null and
\* Len(messages) + 1 for messages.length
RECURSIVE cutoffFrom(_, _, _)
cutoffFrom(messages, i, remaining) ==
  IF i < 1 THEN 0
  ELSE IF messages[i].role # "assistant" THEN cutoffFrom(messages, i - 1, remaining)
  ELSE IF remaining - 1 = 0 THEN i
  ELSE cutoffFrom(messages, i - 1, remaining - 1)

findAssistantCutoffIndex(messages, keepLastAssistants) ==
  IF keepLastAssistants <= 0 THEN Len(messages) + 1
  ELSE cutoffFrom(messages, Len(messages), keepLastAssistants)

\* sliceFrom with "continue" for "break": a message that does not fit is passed over
RECURSIVE sliceFromPassingOver(_, _, _, _, _)
sliceFromPassingOver(messages, i, budgetChars, kept, used) ==
  IF i < 1 THEN kept
  ELSE LET chars == estimateMessageChars(messages[i])
       IN IF used + chars > budgetChars /\ Len(kept) > 0
          THEN sliceFromPassingOver(messages, i - 1, budgetChars, kept, used)
          ELSE sliceFromPassingOver(messages, i - 1, budgetChars, <<messages[i]>> \o kept,
                                    used + chars)

\* the loop of sliceWithinBudget, from the newest message back
RECURSIVE sliceFrom(_, _, _, _, _)
sliceFrom(messages, i, budgetChars, kept, used) ==
  IF i < 1 THEN kept
  ELSE LET chars == estimateMessageChars(messages[i])
       IN IF used + chars > budgetChars /\ Len(kept) > 0 THEN kept
          ELSE sliceFrom(messages, i - 1, budgetChars, <<messages[i]>> \o kept, used + chars)

sliceWithinBudget(messages, budgetChars) ==
  sliceFrom(messages, Len(messages), budgetChars, <<>>, 0)

\* fillFrom with "kept = []" for "kept = [...protectedMessages]"
RECURSIVE fillFromNothing(_, _, _, _)
fillFromNothing(messages, i, kept, remaining) ==
  IF i < 1 THEN <<>>
  ELSE LET msgChars == estimateMessageChars(messages[i])
       IN IF msgChars > remaining THEN <<>>
          ELSE fillFromNothing(messages, i - 1, kept, remaining - msgChars) \o <<messages[i]>>

\* the loop that adds older messages in front of the protected ones
RECURSIVE fillFrom(_, _, _, _)
fillFrom(messages, i, kept, remaining) ==
  IF i < 1 THEN kept
  ELSE LET msgChars == estimateMessageChars(messages[i])
       IN IF msgChars > remaining THEN kept
          ELSE fillFrom(messages, i - 1, <<messages[i]>> \o kept, remaining - msgChars)

Max(a, b) == IF a >= b THEN a ELSE b

pruneContextMessages(params) ==
  LET contextTokens == Max(1, params.contextWindowTokens)
      charWindow == contextTokens * CHARS_PER_TOKEN_ESTIMATE
      budgetChars == Max(1, (charWindow * MaxHistorySharePct) \div 100)
      totalChars == estimateMessagesChars(params.messages)
      trimmed == IF totalChars * 100 > SoftTrimRatioPct * charWindow
                 THEN applySoftTrim(params.messages, params.tools) ELSE params.messages
      afterSoftTrimChars == estimateMessagesChars(trimmed)
      current == IF afterSoftTrimChars * 100 > HardClearRatioPct * charWindow
                 THEN applyHardClear(trimmed, params.tools, charWindow) ELSE trimmed
      afterClearChars == estimateMessagesChars(current)
      cutoffIndex == findAssistantCutoffIndex(current, params.keepLastAssistants)
      protectedIndex == IF cutoffIndex = 0 THEN 1 ELSE cutoffIndex
      protectedMessages == SubSeq(current, protectedIndex, Len(current))
      protectedChars == estimateMessagesChars(protectedMessages)
      kept == IF protectedChars > budgetChars
              THEN sliceWithinBudget(current, budgetChars)
              ELSE fillFrom(current, protectedIndex - 1, protectedMessages,
                            budgetChars - protectedChars)
      keptChars == estimateMessagesChars(kept)
      counts == [trimmedToolResults |-> Changed(params.messages, trimmed),
                 hardClearedToolResults |-> Changed(trimmed, current),
                 totalChars |-> afterClearChars,
                 budgetChars |-> budgetChars]
  IN IF afterClearChars <= budgetChars
     THEN counts @@ [messages |-> current, droppedMessages |-> <<>>,
                     keptChars |-> afterClearChars, droppedChars |-> 0]
     ELSE counts @@ [messages |-> kept,
                     droppedMessages |->
                       SelectSeq(current, LAMBDA msg :
                                   \A k \in 1..Len(kept) : kept[k].ref # msg.ref),
                     keptChars |-> keptChars,
                     droppedChars |-> Max(0, afterClearChars - keptChars)]

\* pruneContextMessages(params) is called and returns
PruneCall ==
  /\ pruneResult = <<>>
  /\ pruneResult' = <<pruneContextMessages(pruneParams)>>
  /\ UNCHANGED <<pruneParams, apartFromPrune>>

InitPrune ==
  /\ MainAtRest
  /\ SessionAtRest
  /\ LockAtRest
  /\ EmitAtRest
  /\ InstallAtRest /\ TurnAtRest /\ HeartbeatAtRest
  /\ pruneResult = <<>>
  /\ pruneParams \in
       [messages : {Objects(q) : q \in UNION {[1..n -> PruneMessages] : n \in 0..MaxMessages}},
        contextWindowTokens : ContextWindowTokens,
        keepLastAssistants : KeepLastAssistants,
        tools : ToolMatches]

NextPrune == PruneCall

SpecPrune == InitPrune /\ [][NextPrune]_vars

\* ------------------------------------------------------------ Agent.emit
MaxEmits == 3         \* emit calls

AgentEvents == {"message_end", "agent_end"}

\* Set.add: a listener that is subscribed keeps its place
SetAdd(ls, l) == IF \E i \in 1..Len(ls) : ls[i] = l THEN ls ELSE Append(ls, l)

\* Set.delete
SetDelete(ls, l) == SelectSeq(ls, LAMBDA x : x # l)

RECURSIVE emitUncaughtFrom(_, _, _, _, _)
emitUncaughtFrom(ls, i, rec, event, throwers) ==
  IF i > Len(ls) THEN [received |-> rec, threw |-> FALSE]
  ELSE IF ls[i] \in throwers
       THEN [received |-> [rec EXCEPT ![ls[i]] = Append(@, event)], threw |-> TRUE]
       ELSE emitUncaughtFrom(ls, i + 1, [rec EXCEPT ![ls[i]] = Append(@, event)], event,
                             throwers)

\* the loop of emit without its try/catch
emitUncaught(ls, rec, event, throwers) == emitUncaughtFrom(ls, 1, rec, event, throwers)

\* for (const listener of this.listeners) { try { listener(event) } catch {} }, from
\* the i-th listener on; throwers are the listeners that throw on this event
RECURSIVE emitFrom(_, _, _, _, _)
emitFrom(ls, i, rec, event, throwers) ==
  IF i > Len(ls) THEN [received |-> rec, threw |-> FALSE]
  ELSE emitFrom(ls, i + 1, [rec EXCEPT ![ls[i]] = Append(@, event)], event, throwers)

emit(ls, rec, event, throwers) == emitFrom(ls, 1, rec, event, throwers)

\* agent.subscribe(fn)
Subscribe(l) ==
  /\ \A i \in 1..Len(listeners) : listeners[i] # l
  /\ listeners' = SetAdd(listeners, l)
  /\ received' = [received EXCEPT ![l] = <<>>]
  /\ since' = [since EXCEPT ![l] = Len(emitted)]
  /\ UNCHANGED <<emitted, thrown, emitThrew, apartFromEmit>>

\* the function subscribe returned
Unsubscribe(l) ==
  /\ \E i \in 1..Len(listeners) : listeners[i] = l
  /\ listeners' = SetDelete(listeners, l)
  /\ received' = [received EXCEPT ![l] = <<>>]
  /\ since' = [since EXCEPT ![l] = 0]
  /\ UNCHANGED <<emitted, thrown, emitThrew, apartFromEmit>>

\* this.emit(event)
EmitCall(event, throwers) ==
  /\ Len(emitted) < MaxEmits
  /\ LET res == emit(listeners, received, event, throwers)
     IN /\ received' = res.received
        /\ emitThrew' = (emitThrew \/ res.threw)
  /\ emitted' = Append(emitted, event)
  /\ thrown' = Append(thrown, {l \in throwers : \E i \in 1..Len(listeners) : listeners[i] = l})
  /\ UNCHANGED <<listeners, since, apartFromEmit>>

InitEmit ==
  MainAtRest /\ SessionAtRest /\ LockAtRest /\ PruneAtRest /\ EmitAtRest /\ InstallAtRest /\ TurnAtRest /\ HeartbeatAtRest

NextEmit ==
  \/ \E l \in ListenerIds : Subscribe(l)
  \/ \E l \in ListenerIds : Unsubscribe(l)
  \/ \E event \in AgentEvents, throwers \in SUBSET ListenerIds : EmitCall(event, throwers)

SpecEmit == InitEmit /\ [][NextEmit]_vars

\* ------------------------------------------------------------ installSessionToolResultGuard
MaxGuardLog == 4      \* entries of the log of the guarded SessionManager

\* sm.append is the sequence of the guards whose wrappers are stacked on the class
\* method, the outermost first: each wrapper calls the append it found at install time
installAlways(m) ==
  LET g == Len(m.append) + 1
  IN [sm |-> [m EXCEPT !.append = <<g>> \o @, !.installed = TRUE, !.guard = <<g>>],
      guard |-> g]

\* installSessionToolResultGuard(sessionManager): the guard it returns and the
\* SessionManager it leaves
installSessionToolResultGuard(m) ==
  IF m.installed /\ m.guard # <<>>
  THEN [sm |-> m, guard |-> m.guard[1]]
  ELSE LET g == Len(m.append) + 1
       IN [sm |-> [m EXCEPT !.append = <<g>> \o @, !.installed = TRUE, !.guard = <<g>>],
           guard |-> g]

\* sm.append(sessionKey, message) entered at wrapper k of the stack, on
\* c = [entries, pending]: below the last wrapper it is SessionManager.append
RECURSIVE appendFrom(_, _, _, _)
appendFrom(stack, k, c, m) ==
  IF k > Len(stack) THEN [c EXCEPT !.entries = Append(@, m)]
  ELSE LET g == stack[k]
           resultIds == extractToolResultIds(m)
           toolCalls == extractToolUsesFromAssistant(m)
       IN IF resultIds # <<>>
          THEN appendFrom(stack, k + 1,
                          [c EXCEPT !.pending[g] = MapDelete(@, SeqRange(resultIds))], m)
          ELSE LET c1 == IF c.pending[g] # <<>>
                         THEN appendFrom(stack, k + 1, [c EXCEPT !.pending[g] = <<>>],
                                         SyntheticMsg(c.pending[g]))
                         ELSE c
                   c2 == appendFrom(stack, k + 1, c1, m)
               IN [c2 EXCEPT !.pending[g] = MapSet(@, toolCalls)]

\* guard.flushPendingToolResults(sessionKey) of the guard of wrapper k
flushFrom(stack, k, c) ==
  IF c.pending[stack[k]] = <<>> THEN c
  ELSE appendFrom(stack, k + 1, [c EXCEPT !.pending[stack[k]] = <<>>],
                  SyntheticMsg(c.pending[stack[k]]))

GuardMessages ==
  {UserText(<<"prompt", 0>>), AssistantMsg(<<1>>), AssistantMsg(<<2>>),
   ToolResultMsg(<<ToolResult(1, "ok")>>)}

\* the SessionManager that got the first install only, as a stack and its state
OneStack == IF oneInstall.installs = 0 THEN <<>> ELSE <<1>>

OneState == [entries |-> oneInstall.entries, pending |-> <<oneInstall.pending>>]

\* installSessionToolResultGuard(sm)
Install ==
  /\ Len(returned) < MaxInstalls
  /\ LET res == installSessionToolResultGuard(sm)
     IN /\ sm' = res.sm
        /\ returned' = Append(returned, res.guard)
  /\ oneInstall' = [oneInstall EXCEPT !.installs = @ + 1]
  /\ UNCHANGED <<guardPending, apartFromInstall>>

\* await sm.append(sessionKey, message)
GuardedAppend(m) ==
  /\ Len(oneInstall.entries) < MaxGuardLog
  /\ LET c == appendFrom(sm.append, 1, [entries |-> sm.entries, pending |-> guardPending], m)
         one == appendFrom(OneStack, 1, OneState, m)
     IN /\ sm' = [sm EXCEPT !.entries = c.entries]
        /\ guardPending' = c.pending
        /\ oneInstall' = [oneInstall EXCEPT !.entries = one.entries,
                                            !.pending = one.pending[1]]
  /\ UNCHANGED <<returned, apartFromInstall>>

\* await guard.flushPendingToolResults(sessionKey), guard being the i-th one returned
GuardFlush(i) ==
  /\ i \in 1..Len(returned)
  /\ Len(oneInstall.entries) < MaxGuardLog
  /\ LET k == CHOOSE j \in 1..Len(sm.append) : sm.append[j] = returned[i]
         c == flushFrom(sm.append, k, [entries |-> sm.entries, pending |-> guardPending])
         one == flushFrom(OneStack, 1, OneState)
     IN /\ sm' = [sm EXCEPT !.entries = c.entries]
        /\ guardPending' = c.pending
        /\ oneInstall' = [oneInstall EXCEPT !.entries = one.entries,
                                            !.pending = one.pending[1]]
  /\ UNCHANGED <<returned, apartFromInstall>>

InitInstall ==
  MainAtRest /\ SessionAtRest /\ LockAtRest /\ PruneAtRest /\ EmitAtRest /\ InstallAtRest /\ TurnAtRest /\ HeartbeatAtRest

NextInstall ==
  \/ Install
  \/ \E m \in GuardMessages : GuardedAppend(m)
  \/ \E i \in 1..MaxInstalls : GuardFlush(i)

SpecInstall == InitInstall /\ [][NextInstall]_vars

\* ------------------------------------------------------------ the provider call of one turn
\* runAgentLoop's provider call: retryAsync around one streamFn call that fills
\* assistantContent, toolCalls and turnTextParts from the stream's events, the catch
\* with the overflow compaction, and the append of the assistant message.  A
\* content block is written with all its fields, "" for a field it does not have.
\* The delta events (thinking_delta, text_delta) go to the event stream only.
MaxBlocks == 2        \* text_end and toolcall_end events of one provider attempt

TextBlock(c) == [type |-> "text", text |-> c, id |-> "", name |-> ""]

ToolUseBlock(id, name) == [type |-> "tool_use", text |-> "", id |-> id, name |-> name]

StreamTexts == {"a", "b"}

StreamToolCalls == {[id |-> "toolu_1", name |-> "read"], [id |-> "toolu_2", name |-> "exec"]}

\* a provider attempt begins, without the three length = 0 assignments
AttemptStartKeepingBlocks ==
  /\ llm.pc \in {"idle", "backoff"}
  /\ llm' = [llm EXCEPT !.pc = "stream",
                        !.attempt = IF llm.pc = "backoff" THEN @ + 1 ELSE @]
  /\ streamed' = <<>>
  /\ UNCHANGED <<assistantContent, turnToolCalls, turnTextParts, turnLog, apartFromTurn>>

\* retryAsync calls its function, at first and after each backoff: the arrays are
\* emptied and streamFn is called
AttemptStart ==
  /\ llm.pc \in {"idle", "backoff"}
  /\ llm' = [llm EXCEPT !.pc = "stream",
                        !.attempt = IF llm.pc = "backoff" THEN @ + 1 ELSE @]
  /\ assistantContent' = <<>>
  /\ turnToolCalls' = <<>>
  /\ turnTextParts' = <<>>
  /\ streamed' = <<>>
  /\ UNCHANGED <<turnLog, apartFromTurn>>

\* the attempt rejected with an error of the given kind: retryAsync retries after
\* a backoff or rethrows, and the catch compacts once on an overflow error
TurnAttemptFailed(kind) ==
  [llm EXCEPT !.discarded = @ \/ streamed' # <<>>,
              !.pc = IF llm.attempt < RetryAttempts /\ shouldRetry(llm, kind)
                     THEN "backoff"
                     ELSE IF kind = "overflow" /\ ~llm.overflowCompactionAttempted
                     THEN "compact"
                     ELSE "failed",
              !.overflowCompactionAttempted =
                 IF llm.attempt < RetryAttempts /\ shouldRetry(llm, kind) THEN @
                 ELSE @ \/ kind = "overflow"]

\* if (abortSignal.aborted) break; then abortable(result, abortSignal) rejects
BreakOnAbort ==
  /\ llm' = TurnAttemptFailed("aborted")
  /\ UNCHANGED <<assistantContent, turnToolCalls, turnTextParts>>

\* case "text_end"
TextEnd(c) ==
  /\ llm.pc = "stream"
  /\ Len(streamed) < MaxBlocks
  /\ streamed' = Append(streamed, TextBlock(c))
  /\ IF llm.aborted THEN BreakOnAbort
     ELSE /\ turnTextParts' = Append(turnTextParts, c)
          /\ assistantContent' = Append(assistantContent, TextBlock(c))
          /\ UNCHANGED <<llm, turnToolCalls>>
  /\ UNCHANGED <<turnLog, apartFromTurn>>

\* case "toolcall_end"
ToolcallEnd(tc) ==
  /\ llm.pc = "stream"
  /\ Len(streamed) < MaxBlocks
  /\ streamed' = Append(streamed, ToolUseBlock(tc.id, tc.name))
  /\ IF llm.aborted THEN BreakOnAbort
     ELSE /\ assistantContent' = Append(assistantContent, ToolUseBlock(tc.id, tc.name))
          /\ turnToolCalls' = Append(turnToolCalls, tc)
          /\ UNCHANGED <<llm, turnTextParts>>
  /\ UNCHANGED <<turnLog, apartFromTurn>>

\* case "error": the loop throws what the event carries
ErrorEvent(kind) ==
  /\ llm.pc = "stream"
  /\ streamed' = streamed
  /\ llm' = TurnAttemptFailed(IF llm.aborted THEN "aborted" ELSE kind)
  /\ UNCHANGED <<assistantContent, turnToolCalls, turnTextParts, turnLog, apartFromTurn>>

\* the stream is exhausted: eventStream.result() is awaited through abortable
StreamDone ==
  /\ llm.pc = "stream"
  /\ streamed' = streamed
  /\ llm' = IF llm.aborted THEN TurnAttemptFailed("aborted") ELSE [llm EXCEPT !.pc = "result"]
  /\ UNCHANGED <<assistantContent, turnToolCalls, turnTextParts, turnLog, apartFromTurn>>

\* the result promise resolved: retryAsync returns, and the assistant message is
\* built from assistantContent and appended
ResultResolved ==
  /\ llm.pc = "result"
  /\ llm' = [llm EXCEPT !.pc = "persisted"]
  /\ turnLog' = Append(turnLog, [role |-> "assistant", content |-> assistantContent])
  /\ UNCHANGED <<assistantContent, turnToolCalls, turnTextParts, streamed, apartFromTurn>>

\* controller.abort() while the turn's provider call is under way: a pending
\* abortable promise rejects from its abort listener
TurnAbort ==
  /\ llm.pc \in {"stream", "result", "backoff", "compact"}
  /\ ~llm.aborted
  /\ streamed' = streamed
  /\ llm' = IF llm.pc = "result"
            THEN [TurnAttemptFailed("aborted") EXCEPT !.aborted = TRUE]
            ELSE [llm EXCEPT !.aborted = TRUE]
  /\ UNCHANGED <<assistantContent, turnToolCalls, turnTextParts, turnLog, apartFromTurn>>

\* prepareCompaction resolved: with a summary the iteration is run again (continue),
\* with arrays declared anew; without one the error is rethrown
TurnCompacted(summary) ==
  /\ llm.pc = "compact"
  /\ IF summary
     THEN /\ llm' = [llm EXCEPT !.pc = "idle", !.attempt = 1]
          /\ assistantContent' = <<>>
          /\ turnToolCalls' = <<>>
          /\ turnTextParts' = <<>>
          /\ streamed' = <<>>
     ELSE /\ llm' = [llm EXCEPT !.pc = "failed"]
          /\ UNCHANGED <<assistantContent, turnToolCalls, turnTextParts, streamed>>
  /\ UNCHANGED <<turnLog, apartFromTurn>>

InitTurn ==
  MainAtRest /\ SessionAtRest /\ LockAtRest /\ PruneAtRest /\ EmitAtRest /\ InstallAtRest /\ TurnAtRest /\ HeartbeatAtRest

NextTurn ==
  \/ AttemptStart
  \/ \E c \in StreamTexts : TextEnd(c)
  \/ \E tc \in StreamToolCalls : ToolcallEnd(tc)
  \/ \E kind \in {"ratelimit", "overflow", "other"} : ErrorEvent(kind)
  \/ StreamDone
  \/ ResultResolved
  \/ TurnAbort
  \/ \E summary \in BOOLEAN : TurnCompacted(summary)

SpecTurn == InitTurn /\ [][NextTurn]_vars

\* ------------------------------------------------------------ HeartbeatManager
\* One HeartbeatManager whose HEARTBEAT.md has content and whose callback is set.
\* Time is counted in ticks of hbClock; a timer set by scheduleNext fires when its
\* due time is reached and before the clock moves on, the timer of HeartbeatWake
\* (coalesceMs, retryMs) within the tick it was set in.  A runOnce call may take
\* any time.  intervalMs is HeartbeatIntervalMs throughout.
MaxTime == 4          \* ticks of the clock per behaviour
MaxTimers == 4        \* outstanding timers of scheduleNext
MaxHbCalls == 4       \* calls of start, stop, trigger, requestNow, updateConfig
HeartbeatIntervalMs == 2   \* config.intervalMs, in ticks

\* the handle setTimeout returns: one that no outstanding timer has
FreshTimer(m) ==
  CHOOSE id \in 1..MaxTimers : id # m.timer /\ \A t \in m.timers : t.id # id

clearTimeout(m, id) == [m EXCEPT !.timers = {t \in @ : t.id # id}]

\* scheduleNext(): state.timer = setTimeout(..., Math.max(0, nextDue - now))
scheduleNext(m, now) ==
  IF ~m.started THEN m
  ELSE LET lastRun == IF m.lastRunMs = NoTime THEN now ELSE m.lastRunMs
           nextDue == lastRun + HeartbeatIntervalMs
           id == FreshTimer(m)
       IN [m EXCEPT !.timer = id,
                    !.timers = @ \cup {[id |-> id, due |-> Max(now, nextDue)]}]

\* HeartbeatWake.schedule(delayMs)
wakeSchedule(m) == IF m.wake.timer THEN m ELSE [m EXCEPT !.wake.timer = TRUE]

\* HeartbeatWake.request(reason)
wakeRequest(m, reason) == wakeSchedule([m EXCEPT !.wake.pendingReason = reason])

\* HeartbeatWake.stop()
wakeStop(m) ==
  [m EXCEPT !.wake.timer = FALSE, !.wake.scheduled = FALSE,
            !.wake.pendingReason = NoReason]

\* HeartbeatManager.stop()
stop(m) ==
  LET m1 == wakeStop([m EXCEPT !.started = FALSE])
  IN IF m1.timer # NoTimer THEN [clearTimeout(m1, m1.timer) EXCEPT !.timer = NoTimer]
     ELSE m1

\* HeartbeatManager.start()
start(m, now) ==
  IF ~m.enabled \/ m.started THEN m
  ELSE scheduleNext([m EXCEPT !.started = TRUE], now)

\* HeartbeatManager.updateConfig(config): config.enabled is <<>> when not given
updateConfig(m, enabled, now) ==
  LET e == IF enabled = <<>> THEN m ELSE [m EXCEPT !.enabled = enabled[1]]
      m1 == IF enabled = <<>> THEN e
            ELSE IF ~enabled[1] THEN stop(e)
            ELSE IF e.started THEN scheduleNext(e, now)
            ELSE e
  IN IF m1.started /\ m1.enabled
     THEN scheduleNext(IF m1.timer # NoTimer THEN clearTimeout(m1, m1.timer) ELSE m1, now)
     ELSE m1

\* the end of every path of runOnce: state.lastRunMs = startMs; this.scheduleNext()
runOnceEnd(m, startMs, now) == scheduleNext([m EXCEPT !.lastRunMs = startMs], now)

\* the finally of the wake timer's callback
wakeFinally(m) ==
  LET m1 == [m EXCEPT !.wake.running = FALSE]
  IN IF m1.wake.pendingReason # NoReason \/ m1.wake.scheduled THEN wakeSchedule(m1)
     ELSE m1

\* every action leaves room for the timers it may set
HbRoom == Cardinality(hb.timers) + 2 <= MaxTimers

HbCall ==
  /\ hbCalls < MaxHbCalls
  /\ HbRoom
  /\ hbCalls' = hbCalls + 1

\* a heartbeat with the given reason begins at the present time
Heartbeat(reason) ==
  IF reason = "interval"
  THEN [lastInterval |-> hbClock,
        tooSoon |-> \/ hbSeen.tooSoon
                    \/ /\ hbSeen.lastInterval # NoTime
                       /\ hbClock - hbSeen.lastInterval < HeartbeatIntervalMs,
        afterStop |-> hbSeen.afterStop \/ ~hb.started]
  ELSE hbSeen

HbStart ==
  /\ HbCall
  /\ hb' = start(hb, hbClock)
  /\ UNCHANGED <<hbRuns, hbClock, hbSeen, apartFromHeartbeat>>

HbStop ==
  /\ HbCall
  /\ hb' = stop(hb)
  /\ UNCHANGED <<hbRuns, hbClock, hbSeen, apartFromHeartbeat>>

HbUpdateConfig(enabled) ==
  /\ HbCall
  /\ hb' = updateConfig(hb, enabled, hbClock)
  /\ UNCHANGED <<hbRuns, hbClock, hbSeen, apartFromHeartbeat>>

HbRequestNow(reason) ==
  /\ HbCall
  /\ hb' = wakeRequest(hb, reason)
  /\ UNCHANGED <<hbRuns, hbClock, hbSeen, apartFromHeartbeat>>

\* trigger(): runOnce("requested") up to its first await, or to its end when the
\* time is outside the active hours
HbTrigger(outside) ==
  /\ HbCall
  /\ hbRuns.trigger = NoRun
  /\ IF outside
     THEN /\ hb' = runOnceEnd(hb, hbClock, hbClock)
          /\ UNCHANGED hbRuns
     ELSE /\ hbRuns' = [hbRuns EXCEPT !.trigger = [startMs |-> hbClock,
                                                   reason |-> "requested"]]
          /\ UNCHANGED hb
  /\ UNCHANGED <<hbClock, hbSeen, apartFromHeartbeat>>

\* the callback of a timer of scheduleNext
HbTimerFire(t) ==
  /\ t \in hb.timers
  /\ t.due <= hbClock
  /\ hb' = wakeRequest([hb EXCEPT !.timers = @ \ {t}, !.timer = NoTimer], "interval")
  /\ UNCHANGED <<hbRuns, hbClock, hbCalls, hbSeen, apartFromHeartbeat>>

\* the callback of the timer of HeartbeatWake, up to the first await of runOnce
WakeTimerFire(outside) ==
  /\ hb.wake.timer
  /\ HbRoom
  /\ LET m1 == [hb EXCEPT !.wake.timer = FALSE, !.wake.scheduled = FALSE]
         reason == IF m1.wake.pendingReason = NoReason THEN "requested"
                   ELSE m1.wake.pendingReason
         m2 == [m1 EXCEPT !.wake.pendingReason = NoReason, !.wake.running = TRUE]
     IN IF m1.wake.running
        THEN /\ hb' = wakeSchedule([m1 EXCEPT !.wake.scheduled = TRUE])
             /\ UNCHANGED <<hbRuns, hbSeen>>
        ELSE IF outside
        THEN /\ hb' = wakeFinally(runOnceEnd(m2, hbClock, hbClock))
             /\ UNCHANGED <<hbRuns, hbSeen>>
        ELSE /\ hb' = m2
             /\ hbRuns' = [hbRuns EXCEPT !.wake = [startMs |-> hbClock, reason |-> reason]]
             /\ hbSeen' = Heartbeat(reason)
  /\ UNCHANGED <<hbClock, hbCalls, apartFromHeartbeat>>

\* the callback of the run of trigger() resolved or rejected
TriggerRunEnd ==
  /\ hbRuns.trigger # NoRun
  /\ HbRoom
  /\ hb' = runOnceEnd(hb, hbRuns.trigger.startMs, hbClock)
  /\ hbRuns' = [hbRuns EXCEPT !.trigger = NoRun]
  /\ UNCHANGED <<hbClock, hbCalls, hbSeen, apartFromHeartbeat>>

\* the callback of the wake handler's run resolved or rejected
WakeRunEnd ==
  /\ hbRuns.wake # NoRun
  /\ HbRoom
  /\ hb' = wakeFinally(runOnceEnd(hb, hbRuns.wake.startMs, hbClock))
  /\ hbRuns' = [hbRuns EXCEPT !.wake = NoRun]
  /\ UNCHANGED <<hbClock, hbCalls, hbSeen, apartFromHeartbeat>>

\* time passes once every timer that is due has fired
HbTick ==
  /\ hbClock < MaxTime
  /\ ~hb.wake.timer
  /\ \A t \in hb.timers : t.due > hbClock
  /\ hbClock' = hbClock + 1
  /\ UNCHANGED <<hb, hbRuns, hbCalls, hbSeen, apartFromHeartbeat>>

InitHeartbeat ==
  /\ MainAtRest /\ SessionAtRest /\ LockAtRest /\ PruneAtRest /\ EmitAtRest
  /\ InstallAtRest /\ TurnAtRest
  /\ hb \in {NewHeartbeat(enabled) : enabled \in BOOLEAN}
  /\ hbRuns = [wake |-> NoRun, trigger |-> NoRun]
  /\ hbClock = 0
  /\ hbCalls = 0
  /\ hbSeen = [lastInterval |-> NoTime, tooSoon |-> FALSE, afterStop |-> FALSE]

NextHeartbeat ==
  \/ HbStart
  \/ HbStop
  \/ \E enabled \in {<<>>, <<TRUE>>, <<FALSE>>} : HbUpdateConfig(enabled)
  \/ \E reason \in {"requested", "exec"} : HbRequestNow(reason)
  \/ \E outside \in BOOLEAN : HbTrigger(outside)
  \/ \E t \in hb.timers : HbTimerFire(t)
  \/ \E outside \in BOOLEAN : WakeTimerFire(outside)
  \/ TriggerRunEnd
  \/ WakeRunEnd
  \/ HbTick

SpecHeartbeat == InitHeartbeat /\ [][NextHeartbeat]_vars

\* ------------------------------------------------------------ properties: vocabulary
\* run r is past lane admission: agent_start emitted, lane slots not yet released
PastAdmission(r) ==
  \/ run[r].pc \in {"prep", "stream", "backoff", "compact", "tool", "settle"}
  \/ run[r].pc = "append" /\ run[r].ret # "summary"

\* run r has released its lane slots
Released(r) ==
  \/ run[r].pc \in {"then", "finished"}
  \/ run[r].pc = "append" /\ run[r].ret = "summary"

IsTerminal(e) == e[1] \in {"agent_end", "agent_error"}

TerminalEvents(r) == {k \in 1..Len(run[r].events) : IsTerminal(run[r].events[k])}

\* the session's log as the SessionManager holds it: the cached entries, or the file
Log(s) == IF states[s].loaded THEN states[s].entries ELSE files[s].lines

ResultIds(m) == {m.res[k].tool_use_id : k \in 1..Len(m.res)}

IsPlainUser(m) == m.role = "user" /\ m.res = <<>>

\* the tool_result ids that follow entry k of log up to position last, stopping at
\* the first user message that carries no tool_result
RECURSIVE FollowingResultIds(_, _, _)
FollowingResultIds(log, k, last) ==
  IF k >= last \/ IsPlainUser(log[k + 1]) THEN {}
  ELSE ResultIds(log[k + 1]) \cup FollowingResultIds(log, k + 1, last)

\* every tool_use of entries 1..last of log is answered before the next plain user
\* message, looking no further than position last
Matched(log, last) ==
  \A k \in 1..last :
    log[k].uses # <<>> => SeqRange(log[k].uses) \subseteq FollowingResultIds(log, k, last)

\* no run is active on session s and no append to its log is under way
SessionQuiet(s) ==
  \A r \in Runs :
    /\ run[r].sessionKey = s => ~PastAdmission(r)
    /\ run[r].parent = s => run[r].pc \notin {"then", "append"}

\* ------------------------------------------------------------ C1
\* C1: whenever no run is active on a session, after any completed, failed or
\* aborted runs of one process, every assistant message of the session's log that
\* has tool_use blocks is followed, before any user message without tool_result,
\* by user messages whose tool_result blocks cover all of its tool_use ids.
C1_LogMatchedWhenQuiet ==
  crashes = 0 =>
    \A s \in Sessions : SessionQuiet(s) => Matched(Log(s), Len(Log(s)))

\* ------------------------------------------------------------ C2
\* C2: a run that has reached the end of Agent.run's finally, and so any run whose
\* promise has settled or whose lane slots are released, has executed
\* flushPendingToolResults(sessionKey) on its way out, whether it returned, threw
\* or was aborted; after the flush and until the slots are released the guard's
\* pending set of its session is empty.
C2_FlushBeforeRelease ==
  \A r \in Runs :
    /\ (run[r].pc = "settle" \/ Released(r)) => run[r].flushCalled
    /\ run[r].pc = "settle" => pendingBySession[run[r].sessionKey] = <<>>

\* an aborted run whose promise rejects is past its flush and still holds its slots
C2_Witness ==
  \E r \in Runs :
    /\ run[r].pc = "settle"
    /\ run[r].settled = "rejected"
    /\ run[r].aborted
    /\ run[r].flushCalled

\* ------------------------------------------------------------ C3
\* C3: when a process stopped with an assistant tool_use persisted and no
\* tool_result for it, the next run on the session in a new process has a
\* tool_result for that id persisted before its own user message is persisted:
\* in the file, everything before that user message is matched.
C3_RepairBeforeUserMessage ==
  \A r \in Runs :
    LET lines == files[run[r].sessionKey].lines
        at == {k \in 1..Len(lines) : lines[k] = UserText(<<"run", r>>)}
    IN (run[r].born > 0 /\ PastAdmission(r)) =>
         \A k \in at : Matched(lines, k - 1)

\* ------------------------------------------------------------ C4
\* C4: at any instant at most one run per sessionKey is past lane admission
\* (between its agent_start and the release of its session-lane slot).
C4_OneRunPerSession ==
  \A r1, r2 \in Runs :
    (r1 # r2 /\ PastAdmission(r1) /\ PastAdmission(r2)) =>
      run[r1].sessionKey # run[r2].sessionKey

\* a second run on a busy session waits in the session lane though the global
\* lane has room for it
C4_Witness ==
  \E r1, r2 \in Runs :
    /\ r1 # r2
    /\ run[r1].sessionKey = run[r2].sessionKey
    /\ PastAdmission(r1)
    /\ run[r2].pc = "session_queue"
    /\ globalLane.active < GlobalLaneConcurrency

C6_SessionOrder ==
  \A r1, r2 \in Runs :
    (/\ r1 < r2
     /\ run[r1].sessionKey = run[r2].sessionKey
     /\ run[r1].born = run[r2].born
     /\ run[r1].pc \notin {"idle", "dead"}
     /\ run[r2].events # <<>>) =>
      /\ TerminalEvents(r1) # {}
      /\ run[r1].flushCalled
      /\ Released(r1)

\* the later of two runs of a session has started, after the earlier one ended
C6_Witness ==
  \E r1, r2 \in Runs :
    /\ r1 < r2
    /\ run[r1].sessionKey = run[r2].sessionKey
    /\ run[r1].born = run[r2].born
    /\ Released(r1)
    /\ run[r2].events # <<>>
    /\ run[r2].events[1][1] = "agent_start"

\* ------------------------------------------------------------ C7
EventIds(rc, name) == {k \in 1..Len(rc.events) : rc.events[k][1] = name}

\* tool.execute was called for tool call id
Started(rc, id) == \E k \in EventIds(rc, "tool_execution_start") : rc.events[k][2] = id

SkipEvents(rc, id) == {k \in EventIds(rc, "tool_skipped") : rc.events[k][2] = id}

\* C7: when queued steering text is first found by the check after the M-th of
\* the N tools of a batch, tools 1..M were executed and tools M+1..N never are;
\* the tool-result message appended for the batch holds the real results of calls
\* 1..M and then "Skipped due to queued user message." for calls M+1..N, in
\* order, and is in the file once the turn has ended; each skipped call has
\* exactly one tool_skipped event.
C7_SteeringSkipsRest ==
  \A r \in Runs :
    LET rc == run[r]
        s == rc.sessionKey
        M == rc.steerAt
        N == Len(rc.toolCalls)
    IN /\ M # 0 =>
            /\ Len(rc.toolResults) = N
            /\ \A k \in 1..N : rc.toolResults[k].tool_use_id = rc.toolCalls[k]
            /\ \A k \in 1..M : /\ rc.toolResults[k].content # SKIPPED
                               /\ Started(rc, rc.toolCalls[k])
            /\ \A k \in (M + 1)..N : /\ rc.toolResults[k].content = SKIPPED
                                     /\ Cardinality(SkipEvents(rc, rc.toolCalls[k])) = 1
            /\ ToolResultMsg(rc.toolResults) \in SeqRange(states[s].entries)
            /\ <<"turn_end", rc.turns>> \in SeqRange(rc.events) =>
                 ToolResultMsg(rc.toolResults) \in SeqRange(files[s].lines)
       /\ \A id \in 1..MaxIds : SkipEvents(rc, id) # {} => ~Started(rc, id)

\* steering found after the first of two tools, the turn ended and the message
\* with one real and one skipped result is in the file
C7_Witness ==
  \E r \in Runs :
    /\ run[r].steerAt = 1
    /\ Len(run[r].toolCalls) = 2
    /\ <<"turn_end", run[r].turns>> \in SeqRange(run[r].events)
    /\ ToolResultMsg(<<ToolResult(run[r].toolCalls[1], "ok"), skipToolCall(run[r].toolCalls[2])>>)
         \in SeqRange(files[run[r].sessionKey].lines)

C9_AbortEndsInError ==
  \A r \in Runs :
    (/\ run[r].aborted
     /\ run[r].abortPc \in {"stream", "tool", "results"}
     /\ TerminalEvents(r) # {}) =>
      /\ run[r].events[Len(run[r].events)][1] = "agent_error"
      /\ run[r].settled = "rejected"

\* ------------------------------------------------------------ C10
\* C10: after abort(runId) the run emits no further turn_start and begins no
\* further provider stream call, wherever the loop was when abort was called.
C10_NoTurnAfterAbort ==
  \A r \in Runs :
    run[r].aborted =>
      /\ \A k \in EventIds(run[r], "turn_start") : k <= run[r].abortEv
      /\ run[r].streamCalls = run[r].abortStreamCalls

\* ------------------------------------------------------------ C11
\* C11: within one turn at most 3 provider calls are made; a rate-limit error of
\* the third call surfaces (agent_error, run() rejects); only rate-limit errors are
\* re-attempted; and no re-attempt is begun once the run has been aborted.
C11_RetryBound ==
  \A r \in Runs :
    /\ run[r].attempt <= 3
    /\ run[r].pc = "backoff" => run[r].lastKind = "ratelimit" /\ run[r].attempt < 3
    /\ (run[r].lastKind = "ratelimit" /\ run[r].pc # "backoff") =>
         /\ run[r].attempt = 3
         /\ run[r].events[Len(run[r].events)][1] = "agent_error"
         /\ run[r].settled = "rejected"
    /\ (run[r].pc = "stream" /\ run[r].attempt > 1 /\ run[r].aborted) =>
         run[r].abortStreamCalls = run[r].streamCalls

\* ------------------------------------------------------------ C12
\* C12: in one run the loop starts at most one overflow auto-compaction; an
\* overflow error that is not answered by a compaction with a summary (it comes
\* after the one attempt, or the attempt yields no summary) ends the run with
\* agent_error for that error and run() rejects.
C12_OneOverflowCompaction ==
  \A r \in Runs :
    /\ Cardinality(EventIds(run[r], "context_overflow_compact")) <= 1
    /\ run[r].pc = "compact" =>
         Cardinality(EventIds(run[r], "context_overflow_compact")) = 1
    /\ (run[r].lastKind = "overflow" /\ run[r].pc # "compact") =>
         /\ run[r].overflowCompactionAttempted
         /\ run[r].events[Len(run[r].events)][1] = "agent_error"
         /\ run[r].settled = "rejected"

\* a second overflow, after a compaction that gave a summary, has ended the run
C12_Witness ==
  \E r \in Runs :
    /\ run[r].lastKind = "overflow"
    /\ run[r].streamCalls = 2
    /\ Cardinality(EventIds(run[r], "context_overflow_compact")) = 1
    /\ run[r].settled = "rejected"

\* ------------------------------------------------------------ C13
\* C13: the turn counter never exceeds maxTurns and no turn_start is emitted for
\* a turn beyond it; a run that the cap stops while tool calls or pending messages
\* remain ends with agent_end and run() resolves.
C13_TurnCap ==
  \A r \in Runs :
    /\ run[r].turns <= MaxTurns
    /\ \A k \in EventIds(run[r], "turn_start") : run[r].events[k][2] <= MaxTurns
    /\ (/\ TerminalEvents(r) # {}
        /\ run[r].turns = MaxTurns
        /\ run[r].hasMoreToolCalls \/ run[r].pendingMessages # <<>>
        /\ ~run[r].loopError
        /\ run[r].streamCalls > 0) =>
         /\ run[r].events[Len(run[r].events)][1] = "agent_end"
         /\ run[r].settled = "resolved"

\* the cap has stopped a run whose last turn still asked for tools
C13_Witness ==
  \E r \in Runs :
    /\ run[r].turns = MaxTurns
    /\ run[r].toolCalls # <<>>
    /\ run[r].hasMoreToolCalls
    /\ ~run[r].aborted
    /\ run[r].events[Len(run[r].events)][1] = "agent_end"

\* ------------------------------------------------------------ C14
\* the step in which the tool call under way settles (tool_execution_end is pushed)
ToolSettles(r) ==
  /\ run[r].pc = "tool"
  /\ Len(run'[r].events) > Len(run[r].events)

\* C14: when a tool call settles, by returning or by throwing, the run does not
\* end: the call's result is recorded under its id (an exception as an
\* "ExecError: ..." string), and the loop goes on to the next call of the batch or,
\* with a result for every call of the batch, to the append of the result message;
\* once the turn has ended that message is in the file.
C14_ToolErrorsContinue ==
  /\ [][\A r \in Runs :
          ToolSettles(r) =>
            LET old == run[r]
                new == run'[r]
                k == old.i
            IN /\ Len(new.toolResults) >= k
               /\ new.toolResults[k].tool_use_id = old.toolCalls[k]
               /\ new.toolResults[k].content \in {"ok"} \cup ExecErrors
               /\ old.callAborted => new.toolResults[k].content \in ExecErrors
               /\ new.settled = "no"
               /\ \A j \in 1..Len(new.events) : ~IsTerminal(new.events[j])
               /\ \/ new.pc = "tool" /\ new.i = k + 1
                  \/ /\ new.pc = "append"
                     /\ new.ret = "results"
                     /\ Len(new.toolResults) = Len(old.toolCalls)
                     /\ new.inflight = ToolResultMsg(new.toolResults)]_vars
  /\ [](\A r \in Runs :
          (run[r].toolResults # <<>> /\ <<"turn_end", run[r].turns>> \in SeqRange(run[r].events))
            => ToolResultMsg(run[r].toolResults)
                 \in SeqRange(files[run[r].sessionKey].lines))

\* the first tool of a batch of two threw, the second ran, the result message is
\* in the file and the next turn has begun
C14_Witness ==
  \E r \in Runs :
    /\ <<"turn_start", 2>> \in SeqRange(run[r].events)
    /\ \E k \in 1..Len(files[run[r].sessionKey].lines) :
         LET m == files[run[r].sessionKey].lines[k]
         IN /\ Len(m.res) = 2
            /\ m.res[1].content = "ExecError: tool failed"
            /\ m.res[2].content = "ok"

\* ------------------------------------------------------------ C15
\* the messages of the entries of a path whose index is in the set keep, in path order
RECURSIVE MessagesAt(_, _, _)
MessagesAt(path, keep, i) ==
  IF i > Len(path) THEN <<>>
  ELSE (IF i \in keep /\ path[i].type = "message" THEN <<EntryMessage(path[i])>> ELSE <<>>)
       \o MessagesAt(path, keep, i + 1)

\* the indices of the compaction entries of a path
CompactionsOn(path) == {i \in 1..Len(path) : path[i].type = "compaction"}

\* the index of the compaction entry that is last on the path
LastCompactionOn(path) ==
  CHOOSE c \in CompactionsOn(path) : \A d \in CompactionsOn(path) : d <= c

\* the indices before compaction c that are at or after its firstKeptEntryId
KeptBeforeCompaction(path, c) ==
  {i \in 1..(c - 1) : \E f \in 1..i : path[f].id = path[c].firstKeptEntryId}

\* C15: load on a chain with a compaction entry returns the summary of the latest
\* compaction entry of the path first, then the messages of the entries from
\* firstKeptEntryId up to that compaction entry, then the messages of all entries
\* after it; no message of an entry strictly before firstKeptEntryId is returned.
C15_LoadWithCompaction ==
  LET state == ensureSessionState(sessionState, sessionFile)
      path == PathTo(state.entries, state.leafId)
      context == buildSessionContext(state)
  IN CompactionsOn(path) # {} =>
       LET c == LastCompactionOn(path)
           kept == KeptBeforeCompaction(path, c)
       IN /\ context # <<>>
          /\ Head(context) = createCompactionSummaryMessage(path[c])
          /\ Tail(context) = MessagesAt(path, kept, 1)
                             \o MessagesAt(path, (c + 1)..Len(path), 1)
          /\ \A i \in 1..(c - 1) :
               i \notin kept =>
                 \A k \in 1..Len(context) : context[k] # EntryMessage(path[i])

\* a chain with two compaction entries where the latest one drops a message
\* that the earlier one kept and keeps a message before it
C15_Witness ==
  LET state == sessionState
      path == PathTo(state.entries, state.leafId)
  IN /\ state.loaded
     /\ Cardinality(CompactionsOn(path)) = 2
     /\ LET c == LastCompactionOn(path)
            kept == KeptBeforeCompaction(path, c)
        IN /\ \E i \in 1..(c - 1) : i \notin kept /\ path[i].type = "message"
           /\ \E i \in kept : path[i].type = "message"
           /\ \E d \in CompactionsOn(path) :
                d < c /\ path[d].firstKeptEntryId # path[c].firstKeptEntryId

\* ------------------------------------------------------------ C16
\* the state a new process builds from the file
Reloaded == ensureSessionState(NoSessionState, sessionFile)

\* every entry's parentId is the id of the entry before it, 0 for the first
ParentIsPrevious(entries) ==
  \A k \in 1..Len(entries) :
    entries[k].parentId = IF k = 1 THEN NullId ELSE entries[k - 1].id

\* C16: in a process that has not restarted, each entry's parentId is the id of the
\* entry appended just before it, the walk from the leaf visits every entry once in
\* append order and, once no write is outstanding and the file exists, a reload of
\* the file returns the same messages in the same order as the in-memory context.
C16_ChainInAppendOrder ==
  (sessionState.loaded /\ restarts = 0) =>
    /\ ParentIsPrevious(sessionState.entries)
    /\ PathTo(sessionState.entries, sessionState.leafId) = sessionState.entries
    /\ (persisting = {} /\ sessionFile.exists) =>
         buildSessionContext(Reloaded) = buildSessionContext(sessionState)

\* ------------------------------------------------------------ C17
HasAssistantEntry(entries) ==
  \E k \in 1..Len(entries) : entries[k].type = "message" /\ entries[k].role = "assistant"

C18_OneHolder ==
  \A a, b \in Acquirers : (acquirers[a] = "held" /\ acquirers[b] = "held") => a = b

\* ------------------------------------------------------------ C20
\* C20: whenever pruneContextMessages drops messages, the keptChars it returns is
\* at most budgetChars, for every message list and message size.
C20_KeptWithinBudget ==
  (pruneResult # <<>> /\ pruneResult[1].droppedMessages # <<>>) =>
    pruneResult[1].keptChars <= pruneResult[1].budgetChars

\* ------------------------------------------------------------ C19
\* run r is between its agent_start and the end of its final flush
DuringRun(r) ==
  \/ run[r].pc \in {"prep", "stream", "backoff", "compact", "tool"}
  \/ run[r].pc = "append" /\ run[r].ret # "summary"

\* C19: reset cannot take effect while a run of the session is active: in a running
\* process the session's in-memory state and its file are never deleted between a
\* run's agent_start and the end of its final flush.
C19_NoResetDuringRun ==
  [][\A s \in Sessions :
       (/\ crashes' = crashes
        /\ \/ states[s].loaded /\ ~states'[s].loaded
           \/ files[s].exists /\ ~files'[s].exists)
       => ~\E r \in Runs : run[r].sessionKey = s /\ DuringRun(r)]_vars

\* ------------------------------------------------------------ C21
\* C21: an exception thrown by a subscriber is swallowed: every subscribed listener has
\* been called with every event emitted since it subscribed, in the order of the emit
\* calls, whichever listeners threw, and no emit call threw to the code that called it.
C21_ThrowingListenerSwallowed ==
  /\ ~emitThrew
  /\ \A i \in 1..Len(listeners) :
       received[listeners[i]] = SubSeq(emitted, since[listeners[i]] + 1, Len(emitted))

\* a listener threw on an event, a listener after it in the iteration order received that
\* event and the one emitted after it
C21_Witness ==
  \E n \in 1..Len(emitted) - 1, i, j \in 1..Len(listeners) :
    /\ i < j
    /\ listeners[i] \in thrown[n]
    /\ since[listeners[j]] < n
    /\ since[listeners[i]] < n
    /\ Len(received[listeners[j]]) >= 2

\* ------------------------------------------------------------ C22
\* the places of the session logs that hold steering text n
SteerPlaces(n) ==
  {<<s, k>> \in Sessions \X (1..(2 * MaxTurns + 2 * MaxRuns + 2)) :
     k <= Len(Log(s)) /\ Log(s)[k] = UserText(<<"steer", n>>)}

\* C22: the texts passed to steer are persisted as user messages, each exactly once:
\* once no run is active, no steering text is queued and nothing failed, was aborted
\* or restarted, every text passed to steer is in a session log at exactly one place.
C22_SteersPersistedOnce ==
  (/\ faults = 0 /\ aborts = 0 /\ crashes = 0
   /\ \A s \in Sessions : SessionQuiet(s) /\ steeringQueues[s] = <<>>
   /\ \A r \in Runs : run[r].pc \in {"idle", "finished"})
  => \A n \in 1..steers : Cardinality(SteerPlaces(n)) = 1

\* ------------------------------------------------------------ C23
\* C23: installSessionToolResultGuard on an already guarded SessionManager returns the
\* same guard and does not wrap append again: however many installs were made, append
\* has one wrapper, every install returned the one guard, and the log and the pending
\* ids are those of a SessionManager on which only the first install was made.
C23_InstallIdempotent ==
  /\ Len(sm.append) <= 1
  /\ \A i, j \in 1..Len(returned) : returned[i] = returned[j]
  /\ sm.entries = oneInstall.entries
  /\ returned # <<>> => guardPending[returned[1]] = oneInstall.pending

\* three installs were made, a later append was intercepted and flushed the pending id
C23_Witness ==
  /\ Len(returned) = 3
  /\ Len(sm.entries) >= 3
  /\ sm.entries[2] = SyntheticMsg(<<1>>)
  /\ guardPending[returned[3]] = <<2>>

\* ------------------------------------------------------------ C24
\* C24: when the first context-overflow failure of a run is followed by a
\* prepareCompaction that yields a summary, the loop retries the iteration: the step
\* in which prepareCompaction resolves with a summary, in a run that is not aborted,
\* makes another provider call; it does not end the loop.
C24_RetryAfterOverflowCompaction ==
  [][\A r \in Runs :
       (/\ run[r].pc = "compact"
        /\ ~run[r].aborted
        /\ run'[r].pc \notin {"compact", "dead"}
        /\ ~run'[r].loopError)
       => /\ run'[r].pc = "stream"
          /\ run'[r].streamCalls = run[r].streamCalls + 1]_vars

\* ------------------------------------------------------------ C25
\* C25: every append to a session's log is made by the run that holds that session's
\* lane slot: a run that is inside an append works on its own session and is past
\* lane admission and not yet released.
C25_AppendsFromLaneHolder ==
  \A r \in Runs :
    run[r].pc = "append" => Target(r) = run[r].sessionKey /\ PastAdmission(r)

\* ------------------------------------------------------------ C26
\* the guarded append of run r takes the flush branch in this step
FlushStarts(r) == run[r].pc # "append" /\ run'[r].pc = "append" /\ run'[r].todo # <<>>

\* the synthetic message of run r's append is written and the new message is pushed
FlushWritten(r) ==
  /\ run[r].pc = "append"
  /\ run[r].todo # <<>>
  /\ run'[r].todo = <<>>
  /\ run'[r].pc # "dead"
  /\ faults' = faults

\* run r's append of a message without tool_result resolves in this step
PlainAppendReturns(r) ==
  /\ run[r].pc = "append"
  /\ run[r].todo = <<>>
  /\ extractToolResultIds(run[r].inflight) = <<>>
  /\ run'[r].pc # "dead"
  /\ run'[r].inflight = NoMsg
  /\ faults' = faults

Last(q) == q[Len(q)]

\* C26: when the guarded append receives a message without tool_result while pending is
\* non-empty, one synthetic user message with one placeholder tool_result per pending
\* id, in the order the ids were recorded, is persisted immediately before the new
\* message, and pending then holds only the tool_use ids of the new message.
C26_FlushBeforeNewMessage ==
  [][\A r \in Runs :
       LET s == Target(r)
           pend == pendingBySession[s]
           entries == states'[s].entries
       IN /\ FlushStarts(r) =>
               /\ pend # <<>>
               /\ run'[r].inflight.role = "user"
               /\ run'[r].inflight.res = [k \in 1..Len(pend) |-> ToolResult(pend[k], MISSING)]
               /\ Last(entries) = run'[r].inflight
          /\ FlushWritten(r) =>
               /\ Len(entries) >= 2
               /\ Last(entries) = run[r].todo[1]
               /\ entries[Len(entries) - 1] = run[r].inflight
               /\ files'[s].lines # <<>> /\ Last(files'[s].lines) = run[r].inflight
          /\ PlainAppendReturns(r) =>
               /\ states'[s].hasAssistant =>
                    files'[s].lines # <<>> /\ Last(files'[s].lines) = run[r].inflight
               /\ pendingBySession'[s] = extractToolUsesFromAssistant(run[r].inflight)]_vars

\* ------------------------------------------------------------ C27
\* entry k of log is a tool-result message built by the loop, not by the guard
IsLoopResults(log, k) ==
  /\ log[k].role = "user"
  /\ log[k].res # <<>>
  /\ \E i \in 1..Len(log[k].res) : log[k].res[i].content # MISSING

\* the assistant messages before entry k of log
AssistantsBefore(log, k) == {j \in 1..(k - 1) : log[j].role = "assistant"}

\* entry k answers, one for one and in order, the tool_use ids of the nearest
\* assistant message before it
AnswersPreceding(log, k) ==
  /\ AssistantsBefore(log, k) # {}
  /\ LET j == CHOOSE x \in AssistantsBefore(log, k) : \A y \in AssistantsBefore(log, k) : y <= x
     IN [i \in 1..Len(log[k].res) |-> log[k].res[i].tool_use_id] = log[j].uses

\* C27: every tool-result user message persisted by the loop holds exactly one
\* tool_result per tool_use of the preceding assistant message, in the order of the
\* tool_use blocks, whether the results are real, error strings or skip placeholders;
\* in memory and in the file.
C27_OneResultPerToolUse ==
  \A s \in Sessions :
    /\ \A k \in 1..Len(states[s].entries) :
         IsLoopResults(states[s].entries, k) => AnswersPreceding(states[s].entries, k)
    /\ \A k \in 1..Len(files[s].lines) :
         IsLoopResults(files[s].lines, k) => AnswersPreceding(files[s].lines, k)

\* a file holds a tool-result message of the loop with an error string for the first
\* call and the skip placeholder for the second
C27_Witness ==
  \E s \in Sessions : \E k \in 1..Len(files[s].lines) :
    /\ Len(files[s].lines[k].res) = 2
    /\ files[s].lines[k].res[1].content \in ExecErrors
    /\ files[s].lines[k].res[2].content = SKIPPED

\* ------------------------------------------------------------ C28
\* the last line of the file was cut short by a write, or a line is broken by one
TornLines == {k \in 1..Len(sessionFile.lines) : sessionFile.lines[k].type \in {"partial", "broken"}}

\* the entry lines of the file are in the order in which the entries were appended
FileInAppendOrder ==
  LET entries == loadSessionFile(sessionFile)
  IN \A j, k \in 1..Len(entries) : j < k => entries[j].id < entries[k].id

\* C28: after a load that skipped a truncated last line the session continues
\* correctly: once the entries appended since are written, a reload of the file
\* returns every message of the conversation held in memory, those entries included.
C28_RecoverableAfterTornLine ==
  (/\ TornLines # {}
   /\ sessionState.loaded
   /\ persisting = {}
   /\ FileInAppendOrder)
  => SeqRange(buildSessionContext(sessionState)) \subseteq SeqRange(buildSessionContext(Reloaded))

\* ------------------------------------------------------------ C29
\* the step is made with the session write lock held: persistEntry holds it from its
\* acquireSessionWriteLock to the release in its finally
WriteLockHeld == \E entry \in persisting : SessionWritten(entry)

\* the step is the in-memory part of an append or appendCompaction call
AppendModifiesState ==
  /\ lastId' = lastId + 1
  /\ \/ sessionState'.entries # ensureSessionState(sessionState, sessionFile).entries
     \/ sessionState'.leafId # ensureSessionState(sessionState, sessionFile).leafId
     \/ sessionState'.hasAssistant # ensureSessionState(sessionState, sessionFile).hasAssistant

\* C29: append and appendCompaction modify the in-memory session state (entries, byId,
\* leafId, hasAssistant) only while the session write lock is held.
C29_StateModifiedUnderLock == [][AppendModifiesState => WriteLockHeld]_vars

\* ------------------------------------------------------------ C30
\* the messages of the entries of path that come after the entry with id
RECURSIVE MessagesAfter(_, _)
MessagesAfter(path, id) ==
  IF path = <<>> THEN <<>>
  ELSE IF Head(path).id = id THEN appendMessages(Tail(path))
  ELSE MessagesAfter(Tail(path), id)

\* the compaction entry of the last run-start compaction is in the file, no write is
\* outstanding and the file holds its entries in append order with none lost: each
\* line's parentId is the id of the line before it
RunCompactionPersisted ==
  /\ runKept.id # NullId
  /\ persisting = {}
  /\ sessionFile.exists
  /\ ParentIsPrevious(loadSessionFile(sessionFile))
  /\ HasId(loadSessionFile(sessionFile), runKept.id)

LeftLockPresent == lockFile.exists /\ lockFile.creator = DeadPid

\* caller a has read the lock file a dead process left and goes on to remove it
JudgesLeftLock(a) ==
  (acquirers[a] = "read" /\ acquirers'[a] # "read" /\ LeftLockPresent)
    => acquirers'[a] = "rm"

\* C31: a lock file whose owner is dead, whose createdAt is older than staleMs or
\* whose payload is unreadable does not block writers: a caller that reads it
\* removes it instead of waiting, and when a caller is waiting for such a lock some
\* caller obtains the lock.
C31_StaleLockRemoved ==
  /\ [][\A a \in Acquirers : JudgesLeftLock(a)]_vars
  /\ (LeftLockPresent /\ (\E a \in Acquirers : acquirers[a] # "idle"))
       ~> (\E a \in Acquirers : acquirers[a] = "held")

\* a caller removed the lock file that a dead process left and holds the lock
C31_Witness ==
  \E a \in Acquirers : a \in staleRemoved /\ acquirers[a] = "held"

\* ------------------------------------------------------------ C32
\* the list the message drop worked on, as the result returns it
Pruned(r) == r.droppedMessages \o r.messages

AssistantsFrom(q, p) == Cardinality({k \in p..Len(q) : q[k].role = "assistant"})

\* the position of the n-th last assistant message of q, Len(q) + 1 when n is 0
\* and 0 when q has fewer than n assistant messages
NthLastAssistant(q, n) ==
  IF n <= 0 THEN Len(q) + 1
  ELSE IF AssistantsFrom(q, 1) < n THEN 0
  ELSE CHOOSE p \in 1..Len(q) : q[p].role = "assistant" /\ AssistantsFrom(q, p) = n

\* the call dropped messages, the n-th last assistant message is at p > 0 and the
\* messages from p to the end fit within budgetChars
ProtectedFits(r, p) ==
  /\ r.droppedMessages # <<>>
  /\ p > 0
  /\ estimateMessagesChars(SubSeq(Pruned(r), p, Len(Pruned(r)))) <= r.budgetChars

\* C32: when pruneContextMessages drops messages and the messages from the
\* keepLastAssistants-th last assistant message to the end fit within budgetChars,
\* each of them is among the returned messages; a protected message is dropped only
\* when the protected messages alone exceed budgetChars.
C32_ProtectedKept ==
  pruneResult # <<>> =>
    LET r == pruneResult[1]
        p == NthLastAssistant(Pruned(r), pruneParams.keepLastAssistants)
    IN ProtectedFits(r, p) =>
         \A k \in p..Len(Pruned(r)) :
           \E j \in 1..Len(r.messages) : r.messages[j].ref = Pruned(r)[k].ref

\* a call that dropped messages and kept its two protected messages, the assistant
\* message not being the first of the list
C32_Witness ==
  /\ pruneResult # <<>>
  /\ pruneParams.keepLastAssistants = 1
  /\ LET r == pruneResult[1]
         p == NthLastAssistant(Pruned(r), 1)
     IN /\ ProtectedFits(r, p)
        /\ p > 1
        /\ p < Len(Pruned(r))
        /\ Len(r.messages) = Len(Pruned(r)) - p + 1

\* ------------------------------------------------------------ C33
\* the tool_result messages of the call whose tool the settings do not let prune:
\* its name matches a deny pattern, or no pattern of a non-empty allow list
Unprunable ==
  {k \in 1..Len(pruneParams.messages) :
     /\ pruneParams.messages[k].kind = "tool_result"
     /\ \/ \E pattern \in pruneParams.tools.deny :
             matchGlob(pruneParams.messages[k].toolName, pattern)
        \/ /\ pruneParams.tools.allow # {}
           /\ \A pattern \in pruneParams.tools.allow :
                ~matchGlob(pruneParams.messages[k].toolName, pattern)}

\* C33: a tool_result of a tool whose name matches a deny pattern, or no pattern of
\* a non-empty allow list, is neither soft-trimmed nor hard-cleared whatever its
\* size: the call returns the message object it was given, kept or dropped.
C33_DeniedToolNeverPruned ==
  pruneResult # <<>> =>
    \A k \in Unprunable : Pruned(pruneResult[1])[k] = pruneParams.messages[k]

\* ------------------------------------------------------------ C34
\* run r has emitted its terminal event, run the final flush and released its slots
Ended(r) == Released(r) /\ TerminalEvents(r) # {} /\ run[r].flushCalled

\* a step of RunStep(r) is enabled from the run's admission to its release
RunStepEnabled == \A r \in Runs : PastAdmission(r) => ENABLED RunStep(r)

\* C34: when every provider call, tool call, hook and log write returns, every
\* admitted run of a process that keeps running comes to emit its terminal event,
\* run the final flush of the guard and release its lane slots.
C34_AdmittedRunEnds ==
  \A r \in Runs : PastAdmission(r) ~> (Ended(r) \/ run[r].pc = "dead")

\* a run that used all its turns, the second one after an overflow compaction and
\* a retried provider call, has ended
C34_Witness ==
  \E r \in Runs :
    /\ Ended(r)
    /\ run[r].turns = MaxTurns
    /\ run[r].overflowCompactionAttempted

\* ------------------------------------------------------------ C35
\* steering text n waits in a session's steering queue
SteerQueued(n) ==
  \E s \in Sessions : \E k \in 1..Len(steeringQueues[s]) : steeringQueues[s][k] = n

\* C35: no steering text is lost: in a process that has not restarted, whenever no
\* run is active on any session, every text passed to steer is still in a steering
\* queue or is a user message of a session log.
C35_NoSteerLost ==
  (crashes = 0 /\ \A s \in Sessions : SessionQuiet(s))
    => \A n \in 1..steers : SteerQueued(n) \/ SteerPlaces(n) # {}

\* ------------------------------------------------------------ C36
\* the tool_result blocks of a log for tool_use id, as <<message, block>> positions
ResultBlocks(log, id) ==
  {<<k, j>> \in (1..Len(log)) \X (1..MaxTools) :
     j <= Len(log[k].res) /\ log[k].res[j].tool_use_id = id}

\* C36: every tool_use id has at most one tool_result block in a session log, be it
\* a real result, a skip placeholder or a synthetic one.
C36_AtMostOneResult ==
  \A s \in Sessions : \A id \in 1..MaxIds : Cardinality(ResultBlocks(Log(s), id)) <= 1

\* C37: the assistant message the loop appends for a turn holds exactly the text and
\* tool_use blocks the provider streamed in the attempt that succeeded, in stream
\* order (the blocks of the attempts that failed are not in it), and a turn whose
\* provider call failed or was aborted has appended no assistant message
C37_FinalAttemptPersisted ==
  /\ llm.pc = "persisted" => turnLog = <<[role |-> "assistant", content |-> streamed]>>
  /\ llm.pc # "persisted" => turnLog = <<>>

\* a message was appended after an attempt whose blocks were thrown away
C37_Witness ==
  /\ llm.pc = "persisted"
  /\ llm.discarded
  /\ llm.attempt > 1
  /\ Len(streamed) = MaxBlocks
  /\ turnLog # <<>>

\* C38: whenever no append is in progress on a session whose file has been written,
\* the entries in the file are the in-memory entries in the same order, also after
\* an append whose write failed
C38_FileEqualsMemory ==
  (persisting = {} /\ sessionState.loaded /\ sessionFile.exists)
    => loadSessionFile(sessionFile) = sessionState.entries

\* ------------------------------------------------------------ C39
\* the k-th message of q is the k-th object given to the call, or the copy that
\* soft trim or hard clear made of it, which differs from it in its content only
SameAsGiven(q, k) ==
  LET given == pruneParams.messages[k]
  IN \/ q[k] = given
     \/ /\ q[k].ref = given.ref + MaxMessages
        /\ [q[k] EXCEPT !.ref = given.ref, !.chars = given.chars] = given

\* C39: droppedMessages followed by messages is the list given to the call, message
\* by message in the same order, each one the object given or its trimmed copy: the
\* returned messages are a contiguous suffix of the trimmed input and the dropped
\* ones the prefix before it, and an object given to the call is returned as it was
C39_SuffixAndPrefix ==
  pruneResult # <<>> =>
    LET r == pruneResult[1]
    IN /\ Len(Pruned(r)) = Len(pruneParams.messages)
       /\ \A k \in 1..Len(Pruned(r)) : SameAsGiven(Pruned(r), k)

\* a call that dropped a prefix and returned a suffix of two messages or more, a
\* trimmed copy among them
C39_Witness ==
  /\ pruneResult # <<>>
  /\ LET r == pruneResult[1]
     IN /\ r.droppedMessages # <<>>
        /\ Len(r.messages) >= 2
        /\ \E k \in 1..Len(r.messages) : r.messages[k].ref > MaxMessages
        /\ \E k \in 1..Len(r.messages) : r.messages[k].ref <= MaxMessages

\* ------------------------------------------------------------ C40
\* C40: the HeartbeatManager has at most one outstanding timer of scheduleNext at
\* any time, no two interval-driven heartbeats begin less than intervalMs apart,
\* and no interval-driven heartbeat begins while the manager is stopped
C40_OneIntervalTimer ==
  /\ Cardinality(hb.timers) <= 1
  /\ ~hbSeen.tooSoon
  /\ ~hbSeen.afterStop

====
